---- MODULE Spec2Model ----
(***************************************************************************)
(* A model of package immutable (erkkah/immutable): the copy-on-write hash *)
(* trie behind Map (src/map.go).  The Go heap is explicit: *bucket nodes,  *)
(* the backing arrays of the `values` slices and the backing arrays of the *)
(* element lists are addressed objects, and a slice is a header            *)
(* (array, len, cap) as in Go, so that a write through a shared pointer or *)
(* a shared backing array is visible to every version that references it.  *)
(***************************************************************************)
EXTENDS Integers, Sequences, FiniteSets, TLC

(* ------------------------------ constants ------------------------------ *)

bucketCount == 8
levels == 4
leaveCount == 8

\* a uint32 is kept as two 16-bit halves [hi, lo], its value hi * 2^16 + lo
\* (the checker's integers are 32 bits wide)
Half == 65536

\* the bound of the [512]uint8 window hashValue reads a key through
MaxKeyBytes == 512

\* the nil interface value Get returns with ok = false
NilValue == 0

(* ------------------------------- bounds -------------------------------- *)

\* versions a run creates after the zero Map
MaxVersions == 3
\* values written are 1..MaxVal
MaxVal == 2
\* a visitor says false at its call number 1..MaxStop, or never (0)
MaxStop == 2
\* versions a run over every kind of key creates after the zero Map
MaxKeyVersions == 2
\* Vectors a run creates after the zero Vector
MaxVecVersions == 3
\* values written to a Vector are 0..MaxVVal
MaxVVal == 1

(* -------------------------------- keys --------------------------------- *)
(* A key is an interface{} value: a dynamic type, a value (what == looks   *)
(* at) and the bytes hashValue reads for it.                               *)
(* The array key is a zero [2]float32: an array like the tests'            *)
(* [12]float32{}, with 8 bytes for the hash loop instead of 48; the zero   *)
(* [129]float32 is an array of 516 bytes, more than the 512 of the window  *)
(* hashValue reads a key through.                                          *)

Keys ==
    { "str_empty", "str_01", "str_08", "str_84_04", "str_22_03_01",
      "int_0", "f64_pos0", "f64_neg0", "f64_nan",
      "arr_f32x2", "arr_f32x129", "struct_str_a", "struct_str_b",
      "chan_c", "ptr_p",
      "slice_f32", "map_int_int", "func_f", "struct_slice" }

Zeros(n) == [i \in 1..n |-> 0]

\* reflect.TypeOf(key): the dynamic type of the key
TypeOf(key) ==
    CASE key \in {"str_empty", "str_01", "str_08", "str_84_04", "str_22_03_01"}
                                 -> "string"
      [] key = "int_0"           -> "int"
      [] key \in {"f64_pos0", "f64_neg0", "f64_nan"} -> "float64"
      [] key = "arr_f32x2"       -> "[2]float32"
      [] key = "arr_f32x129"     -> "[129]float32"
      [] key \in {"struct_str_a", "struct_str_b"} -> "struct{s string}"
      [] key = "chan_c"          -> "chan int"
      [] key = "ptr_p"           -> "*int"
      [] key = "slice_f32"       -> "[]float32"
      [] key = "map_int_int"     -> "map[int]int"
      [] key = "func_f"          -> "func()"
      [] key = "struct_slice"    -> "struct{a []byte; b float32}"

\* the value of the key, as Go's == on two operands of one type sees it:
\* +0 and -0 are one float64 value, and the two struct{s string} keys hold
\* the same two characters in different string allocations
ValueOf(key) ==
    CASE key = "str_empty"       -> "''"
      [] key = "str_01"          -> "'\\x01'"
      [] key = "str_08"          -> "'\\x08'"
      [] key = "str_84_04"       -> "'\\x84\\x04'"
      [] key = "str_22_03_01"    -> "'\\x22\\x03\\x01'"
      [] key = "int_0"           -> "0"
      [] key \in {"f64_pos0", "f64_neg0"} -> "0.0"
      [] key = "f64_nan"         -> "NaN"
      [] key = "arr_f32x2"       -> "{0 x 2}"
      [] key = "arr_f32x129"     -> "{0 x 129}"
      [] key \in {"struct_str_a", "struct_str_b"} -> "{s: 'ab'}"
      [] OTHER                   -> key

\* the memory hashValue reads for the key (little endian, 64-bit words):
\* a string's content; a scalar's value bytes; for the default case the
\* t.Size() bytes at the interface's data word, which for a pointer-shaped
\* type (chan, pointer) is the pointer itself, so the bytes read are the
\* first 8 bytes of what it points to (a fresh channel's qcount = 0, and
\* the int 0 the pointer refers to)
BytesOf(key) ==
    CASE key = "str_empty"       -> << >>
      [] key = "str_01"          -> <<1>>
      [] key = "str_08"          -> <<8>>
      [] key = "str_84_04"       -> <<132, 4>>
      [] key = "str_22_03_01"    -> <<34, 3, 1>>
      [] key = "int_0"           -> Zeros(8)
      [] key = "f64_pos0"        -> Zeros(8)
      [] key = "f64_neg0"        -> Zeros(7) \o <<128>>
      [] key = "f64_nan"         -> <<1>> \o Zeros(5) \o <<248, 127>>
      [] key = "arr_f32x2"       -> Zeros(8)
      [] key = "arr_f32x129"     -> Zeros(516)
      [] key = "struct_str_a"    -> <<16>> \o Zeros(7) \o <<2>> \o Zeros(7)
      [] key = "struct_str_b"    -> <<32>> \o Zeros(7) \o <<2>> \o Zeros(7)
      [] key = "chan_c"          -> Zeros(8)
      [] key = "ptr_p"           -> Zeros(8)
      [] OTHER                   -> Zeros(8)

\* a == b on two interface{} values that hold comparable types: the same
\* dynamic type and equal values; a NaN equals nothing
GoEqual(a, b) ==
    /\ TypeOf(a) = TypeOf(b)
    /\ ValueOf(a) = ValueOf(b)
    /\ ValueOf(a) # "NaN"

\* reflect.Type.Comparable
Comparable(t) ==
    t \notin {"[]float32", "map[int]int", "func()", "struct{a []byte; b float32}"}

(* ------------------------------- hashing ------------------------------- *)

\* var hash uint32
ZeroHash == [hi |-> 0, lo |-> 0]

\* hash*31 + uint32(byte), modulo 2^32
HashStep(hash, byte) ==
    [hi |-> (hash.hi * 31 + (hash.lo * 31 + byte) \div Half) % Half,
     lo |-> (hash.lo * 31 + byte) % Half]

\* hash % bucketCount (and hash % leaveCount): bucketCount divides 2^16
Digit(hash) == hash.lo % bucketCount

\* hash /= bucketCount
Shift(hash) ==
    [hi |-> hash.hi \div bucketCount,
     lo |-> (hash.hi % bucketCount) * (Half \div bucketCount) + hash.lo \div bucketCount]

RECURSIVE hashBytes(_, _, _)
\* for _, byte := range bytes { hash = hash*31 + uint32(byte) }
\* (hash is a uint32 at every step: reading it in the loop test makes each
\* step's value be computed before the next step starts)
hashBytes(bytes, i, hash) ==
    IF i > Len(bytes) \/ hash.lo \notin 0..(Half - 1) THEN hash
    ELSE hashBytes(bytes, i + 1, HashStep(hash, bytes[i]))

\* the outcome of a panic
Panic == [hi |-> -1, lo |-> -1]

FastTypes == {"string", "int", "int32", "int64", "float32", "float64"}

\* hashValue without its t.Comparable() check
hashValueUnchecked(key) ==
    IF TypeOf(key) \in FastTypes THEN hashBytes(BytesOf(key), 1, ZeroHash)
    ELSE IF Len(BytesOf(key)) > MaxKeyBytes THEN Panic
    ELSE hashBytes(BytesOf(key), 1, ZeroHash)

hashValue(key) ==
    IF TypeOf(key) \in FastTypes THEN hashBytes(BytesOf(key), 1, ZeroHash)
    ELSE IF ~Comparable(TypeOf(key)) THEN Panic
    ELSE IF Len(BytesOf(key)) > MaxKeyBytes THEN Panic
    ELSE hashBytes(BytesOf(key), 1, ZeroHash)

\* the digest of every key, computed once
HashOf == [key \in Keys |-> hashValue(key)]

\* a scan that takes an equal digest for an equal key
KeyEqByDigest(a, b) == HashOf[a] = HashOf[b]

\* the scan's test, e.key == key
KeyEq(a, b) == GoEqual(a, b)

(* -------------------------------- heap ---------------------------------- *)
(* Addresses are positions in three heaps; 0 is nil.                       *)
(*   nodes : the *bucket objects, [buckets, values]                        *)
(*   varrs : the backing arrays of `values` slices, leaveCount lists each  *)
(*   earrs : the backing arrays of element lists, cap elements each        *)
(* A slice is its header [arr, len, cap].                                  *)

NilSlice == [arr |-> 0, len |-> 0, cap |-> 0]

\* bucket{}: no children, a nil values slice
EmptyBucket == [buckets |-> [i \in 0..(bucketCount - 1) |-> 0], values |-> NilSlice]

\* element{}: the zero element that fills unused capacity
ZeroElement == [key |-> "", value |-> NilValue]

\* Map{}: the zero Map
ZeroMap == [root |-> EmptyBucket]

Min(S) == CHOOSE x \in S : \A y \in S : x <= y

\* &bucket{} for every child: the children of the old bucket are dropped
CopyBucketEmpty(nodes, next) == EmptyBucket

\* &bucket{next.buckets, next.values}, or &bucket{} for a nil child
CopyBucket(nodes, next) ==
    IF next = 0 THEN EmptyBucket
    ELSE [buckets |-> nodes[next].buckets, values |-> nodes[next].values]

\* newValues := make([]elementList, leaveCount, leaveCount); copy(newValues, values)
CopyValues(varrs, values) ==
    [i \in 0..(leaveCount - 1) |->
        IF i < values.len THEN varrs[values.arr][i] ELSE NilSlice]

\* a list that is written without being copied
CopyListShared(earrs, list) == [earrs |-> earrs, list |-> list]

\* append(list[:0:0], list...) and append(elementList{}, list...): a fresh
\* backing array of exactly len(list) elements, or the empty slice itself
CopyList(earrs, list) ==
    IF list.len = 0
    THEN [earrs |-> earrs, list |-> [arr |-> list.arr, len |-> 0, cap |-> 0]]
    ELSE [earrs |-> Append(earrs, SubSeq(earrs[list.arr], 1, list.len)),
          list  |-> [arr |-> Len(earrs) + 1, len |-> list.len, cap |-> list.len]]

\* append(list, e): in place when capacity is left, else a grown copy
\* (runtime.growslice doubles a small capacity)
AppendElement(earrs, list, e) ==
    IF list.len < list.cap
    THEN [earrs |-> [earrs EXCEPT ![list.arr][list.len + 1] = e],
          list  |-> [list EXCEPT !.len = @ + 1]]
    ELSE LET newcap == IF list.cap = 0 THEN 1 ELSE 2 * list.cap
             old    == IF list.len = 0 THEN << >>
                       ELSE SubSeq(earrs[list.arr], 1, list.len)
             fill   == [i \in 1..(newcap - list.len - 1) |-> ZeroElement]
         IN [earrs |-> Append(earrs, old \o <<e>> \o fill),
             list  |-> [arr |-> Len(earrs) + 1, len |-> list.len + 1, cap |-> newcap]]

\* a removal whose shortened slice is not kept
RemoveElementKeepLen(earrs, list, i) ==
    [earrs |-> [earrs EXCEPT ![list.arr] =
                   [j \in 1..Len(@) |-> IF j >= i /\ j < list.len THEN @[j + 1] ELSE @[j]]],
     list  |-> list]

\* append(list[0:i], list[i+1:]...): the tail moves down one place in the
\* same backing array, whose last place keeps its old element
RemoveElement(earrs, list, i) ==
    [earrs |-> [earrs EXCEPT ![list.arr] =
                   [j \in 1..Len(@) |-> IF j >= i /\ j < list.len THEN @[j + 1] ELSE @[j]]],
     list  |-> [list EXCEPT !.len = @ - 1]]

\* a scan that starts at the second element
FindKeyAfterFirst(earrs, list, key) ==
    LET hits == {i \in 2..list.len : KeyEq(earrs[list.arr][i].key, key)}
    IN IF hits = {} THEN 0 ELSE Min(hits)

\* for i, e := range list { if e.key == key ...: the first match, 0 if none
FindKey(earrs, list, key) ==
    LET hits == {i \in 1..list.len : KeyEq(earrs[list.arr][i].key, key)}
    IN IF hits = {} THEN 0 ELSE Min(hits)

\* e.value = value without list[i] = e: only the loop's copy is written
StoreValueLost(earrs, list, i, value) == earrs

\* e.value = value; list[i] = e
StoreValue(earrs, list, i, value) ==
    [earrs EXCEPT ![list.arr][i].value = value]

(* ------------------------------- Map.Set -------------------------------- *)

RECURSIVE SetWalk(_, _, _, _, _)
\* the descent of Set; b = 0 stands for &root, the local copy of m.root
SetWalk(nodes, root, b, hash, level) ==
    IF level >= levels
    THEN [nodes |-> nodes, root |-> root, b |-> b, hash |-> hash]
    ELSE LET bucketIndex == Digit(hash)
             cur    == IF b = 0 THEN root ELSE nodes[b]
             next   == Len(nodes) + 1
             nodes1 == Append(nodes, CopyBucket(nodes, cur.buckets[bucketIndex]))
         IN SetWalk(IF b = 0 THEN nodes1
                    ELSE [nodes1 EXCEPT ![b].buckets[bucketIndex] = next],
                    IF b = 0 THEN [root EXCEPT !.buckets[bucketIndex] = next]
                    ELSE root,
                    next, Shift(hash), level + 1)

\* m.Set(key, value) on heap h: the heap after and the Map returned
MapSet(h, m, key, value) ==
    IF HashOf[key] = Panic THEN [h |-> h, m |-> m, panic |-> TRUE]
    ELSE
    LET w      == SetWalk(h.nodes, m.root, 0, HashOf[key], 0)
        va     == Len(h.varrs) + 1
        varrs1 == Append(h.varrs, CopyValues(h.varrs, w.nodes[w.b].values))
        nodes1 == [w.nodes EXCEPT ![w.b].values =
                      [arr |-> va, len |-> leaveCount, cap |-> leaveCount]]
        valueIndex == Digit(w.hash)
        c      == CopyList(h.earrs, varrs1[va][valueIndex])
        i      == FindKey(c.earrs, c.list, key)
        a      == AppendElement(c.earrs, c.list, [key |-> key, value |-> value])
    IN IF i # 0
       THEN [h |-> [nodes |-> nodes1,
                    varrs |-> [varrs1 EXCEPT ![va][valueIndex] = c.list],
                    earrs |-> StoreValue(c.earrs, c.list, i, value)],
             m |-> [root |-> w.root], panic |-> FALSE]
       ELSE [h |-> [nodes |-> nodes1,
                    varrs |-> [varrs1 EXCEPT ![va][valueIndex] = a.list],
                    earrs |-> a.earrs],
             m |-> [root |-> w.root], panic |-> FALSE]

(* ------------------------------- Map.Get -------------------------------- *)

NotFound == [value |-> NilValue, ok |-> FALSE, panic |-> FALSE]
Panicked == [value |-> NilValue, ok |-> FALSE, panic |-> TRUE]

RECURSIVE GetWalk(_, _, _, _)
\* the descent of Get from bucket b: the leaf reached, or none
GetWalk(nodes, b, hash, level) ==
    IF level >= levels THEN [found |-> TRUE, b |-> b, hash |-> hash]
    ELSE LET next == b.buckets[Digit(hash)]
         IN IF next = 0 THEN [found |-> FALSE, b |-> b, hash |-> hash]
            ELSE GetWalk(nodes, nodes[next], Shift(hash), level + 1)

\* m.Get(key) on heap h
MapGet(h, m, key) ==
    IF HashOf[key] = Panic THEN Panicked
    ELSE
    LET w == GetWalk(h.nodes, m.root, HashOf[key], 0)
    IN IF ~w.found THEN NotFound
       ELSE IF w.b.values.len = 0 THEN NotFound
       ELSE LET list == h.varrs[w.b.values.arr][Digit(w.hash)]
                i    == FindKey(h.earrs, list, key)
            IN IF i = 0 THEN NotFound
               ELSE [value |-> h.earrs[list.arr][i].value, ok |-> TRUE, panic |-> FALSE]

(* ------------------------------ Map.Delete ------------------------------ *)

\* a miss that returns the copied path
DeleteMissCopied(m, root) == [root |-> root]

\* return m: no entry matches, the original map is returned and the copied
\* path (root) is dropped
DeleteMiss(m, root) == m

RECURSIVE DeleteWalk(_, _, _, _, _)
\* the descent of Delete; it stops at a nil child (found = FALSE)
DeleteWalk(nodes, root, b, hash, level) ==
    IF level >= levels
    THEN [found |-> TRUE, nodes |-> nodes, root |-> root, b |-> b, hash |-> hash]
    ELSE LET bucketIndex == Digit(hash)
             cur    == IF b = 0 THEN root ELSE nodes[b]
             next   == Len(nodes) + 1
             nodes1 == Append(nodes, CopyBucket(nodes, cur.buckets[bucketIndex]))
         IN IF cur.buckets[bucketIndex] = 0
            THEN [found |-> FALSE, nodes |-> nodes, root |-> root, b |-> b, hash |-> hash]
            ELSE DeleteWalk(IF b = 0 THEN nodes1
                            ELSE [nodes1 EXCEPT ![b].buckets[bucketIndex] = next],
                            IF b = 0 THEN [root EXCEPT !.buckets[bucketIndex] = next]
                            ELSE root,
                            next, Shift(hash), level + 1)

\* m.Delete(key) on heap h: the heap after (with what the call allocated,
\* also when it returns m) and the Map returned
MapDelete(h, m, key) ==
    IF HashOf[key] = Panic THEN [h |-> h, m |-> m, panic |-> TRUE]
    ELSE
    LET w == DeleteWalk(h.nodes, m.root, 0, HashOf[key], 0)
        h0 == [h EXCEPT !.nodes = w.nodes]
    IN IF ~w.found THEN [h |-> h0, m |-> DeleteMiss(m, w.root), panic |-> FALSE]
       ELSE IF w.nodes[w.b].values.len = 0
            THEN [h |-> h0, m |-> DeleteMiss(m, w.root), panic |-> FALSE]
       ELSE
       LET va     == Len(h.varrs) + 1
           varrs1 == Append(h.varrs, CopyValues(h.varrs, w.nodes[w.b].values))
           nodes1 == [w.nodes EXCEPT ![w.b].values =
                         [arr |-> va, len |-> leaveCount, cap |-> leaveCount]]
           valueIndex == Digit(w.hash)
           c      == CopyList(h.earrs, varrs1[va][valueIndex])
           i      == FindKey(c.earrs, c.list, key)
           r      == RemoveElement(c.earrs, c.list, i)
       IN IF i # 0
          THEN [h |-> [nodes |-> nodes1,
                       varrs |-> [varrs1 EXCEPT ![va][valueIndex] = r.list],
                       earrs |-> r.earrs],
                m |-> [root |-> w.root], panic |-> FALSE]
          ELSE [h |-> [nodes |-> nodes1, varrs |-> varrs1, earrs |-> c.earrs],
                m |-> DeleteMiss(m, w.root), panic |-> FALSE]

(* ------------------------------ Map.Range ------------------------------- *)

\* the visitors of the model: one that answers false at its call number
\* stop and true at every other call (stop = 0: always true)
Visitor(stop, n) == n # stop

\* a walk that ignores the visitor's answer
StopsNever(r) == FALSE

\* if !keepGoing { return false }
Stops(r) == ~r.keepGoing

RECURSIVE VisitList(_, _, _, _, _)
\* for _, e := range list: acc = [calls, keepGoing]
VisitList(h, list, i, stop, acc) ==
    IF i > list.len THEN acc
    ELSE LET e     == h.earrs[list.arr][i]
             calls == Append(acc.calls, [key |-> e.key, value |-> e.value])
             r     == [calls |-> calls, keepGoing |-> Visitor(stop, Len(calls))]
         IN IF Stops(r) THEN r
            ELSE VisitList(h, list, i + 1, stop, r)

\* the next list at or after index li whose loop has an element to visit
\* (values.len if none): the loop over an empty list does nothing
NextList(h, values, li) ==
    Min({l \in li..(values.len - 1) : h.varrs[values.arr][l].len > 0}
        \cup {values.len})

RECURSIVE VisitValues(_, _, _, _, _)
\* for _, list := range b.values
VisitValues(h, values, li, stop, acc) ==
    LET l == NextList(h, values, li)
    IN IF l >= values.len THEN acc
       ELSE LET r == VisitList(h, h.varrs[values.arr][l], 1, stop, acc)
            IN IF Stops(r) THEN r
               ELSE VisitValues(h, values, l + 1, stop, r)

\* if child == nil { continue }: the next child at or after index ci that is
\* not nil (bucketCount if none)
NextChild(b, ci) ==
    Min({c \in ci..(bucketCount - 1) : b.buckets[c] # 0} \cup {bucketCount})

RECURSIVE visit(_, _, _, _)
RECURSIVE VisitChildren(_, _, _, _, _)
\* for _, child := range b.buckets
VisitChildren(h, b, ci, stop, acc) ==
    LET c == NextChild(b, ci)
    IN IF c >= bucketCount THEN acc
       ELSE LET r == visit(h, h.nodes[b.buckets[c]], stop, acc)
            IN IF Stops(r) THEN r
               ELSE VisitChildren(h, b, c + 1, stop, r)

\* (b *bucket).visit
visit(h, b, stop, acc) ==
    IF b.values.len > 0 THEN VisitValues(h, b.values, 0, stop, acc)
    ELSE VisitChildren(h, b, 0, stop, acc)

\* m.Range(visitor): the visitor's calls, in order
MapRange(h, m, stop) ==
    visit(h, m.root, stop, [calls |-> << >>, keepGoing |-> TRUE]).calls

(* -------------------------------- Vector -------------------------------- *)
(* src/vector.go.  The *vectorNode objects live in a heap of their own,    *)
(* vnodes; 0 is nil.  A node holds its two arrays, [bucketSize]interface{} *)
(* and [bucketSize]*vectorNode, indexed from 0.                            *)

bucketBits == 5
bucketSize == 2 ^ bucketBits
bucketMask == bucketSize - 1

\* the nil interface{} of a slot that holds no value; the values stored are
\* uint32 numbers, 0 and up
VNil == -1

\* &vectorNode{}
ZeroNode ==
    [values   |-> [i \in 0..bucketMask |-> VNil],
     children |-> [i \in 0..bucketMask |-> 0]]

\* Vector{}: the zero Vector
ZeroVector == [size |-> 0, capacity |-> 0, depth |-> 0, offset |-> 0, root |-> 0]

\* what a call that panics returns
VPanic == [h |-> << >>, v |-> ZeroVector, panic |-> TRUE]

\* *node, where 0 stands for the &vectorNode{} that Set puts in the place of
\* a nil child (it is read, never written and never linked)
Deref(h, node) == IF node = 0 THEN ZeroNode ELSE h[node]

\* (index >> ((depth - level) * bucketBits)) & bucketMask
NodeIndex(index, depth, level) ==
    (index \div (2 ^ ((depth - level) * bucketBits))) % bucketSize

\* a bounds test that lets index = size through
OutOfBoundsOffByOne(v, index) == index > v.size

\* if index >= v.size { panic("Out of bounds vector access") }
OutOfBounds(v, index) == index >= v.size

\* a new node that starts from empty children
CopyChildrenNone(h, node) == ZeroNode.children

\* copy(newNode.children[:], node.children[:])
CopyChildren(h, node) == Deref(h, node).children

\* copy(newNode.values[:], node.values[:])
CopyLeafValues(h, node) == Deref(h, node).values

\* a Set that also writes the slot of the node it copied from
StoreLeafInPlace(h, newNode, node, nodeIndex, value) ==
    LET h1 == [h EXCEPT ![newNode].values =
                  [CopyLeafValues(h, node) EXCEPT ![nodeIndex] = value]]
    IN IF node = 0 THEN h1
       ELSE [h1 EXCEPT ![node].values[nodeIndex] = value]

\* copy(newNode.values[:], node.values[:]); newNode.values[nodeIndex] = value
StoreLeaf(h, newNode, node, nodeIndex, value) ==
    [h EXCEPT ![newNode].values =
        [CopyLeafValues(h, node) EXCEPT ![nodeIndex] = value]]

RECURSIVE VSetWalk(_, _, _, _, _, _, _)
\* for level := uint32(1); level <= v.depth; level++ { ... } of Set
VSetWalk(h, newNode, node, index, depth, level, nodeIndex) ==
    IF level > depth
    THEN [h |-> h, newNode |-> newNode, node |-> node, nodeIndex |-> nodeIndex]
    ELSE LET ni       == NodeIndex(index, depth, level)
             nextNode == Len(h) + 1
             copied   == [CopyChildren(h, node) EXCEPT ![ni] = nextNode]
             h1       == Append([h EXCEPT ![newNode].children = copied], ZeroNode)
         IN VSetWalk(h1, nextNode, Deref(h, node).children[ni],
                     index, depth, level + 1, ni)

\* v.Set(index, value) on heap h: the heap after and the Vector returned
VectorSet(h, v, index, value) ==
    IF OutOfBounds(v, index) THEN VPanic
    ELSE IF v.root = 0 THEN VPanic
    ELSE LET idx     == index + v.offset
             newRoot == Len(h) + 1
             w       == VSetWalk(Append(h, ZeroNode), newRoot, v.root,
                                 idx, v.depth, 1, idx)
         IN IF w.nodeIndex >= bucketSize THEN VPanic
            ELSE [h |-> StoreLeaf(w.h, w.newNode, w.node, w.nodeIndex, value),
                  v |-> [v EXCEPT !.root = newRoot],
                  panic |-> FALSE]

\* a descent that reads through a nil child
MissingChildPanics == [value |-> VNil, panic |-> TRUE]

\* if node == nil { return nil }
MissingChild == [value |-> VNil, panic |-> FALSE]

RECURSIVE VGetWalk(_, _, _, _, _, _)
\* for level := uint32(1); level <= v.depth; level++ { ... } of Get, and
\* return node.values[nodeIndex]
VGetWalk(h, node, index, depth, level, nodeIndex) ==
    IF level > depth
    THEN IF nodeIndex >= bucketSize THEN [value |-> VNil, panic |-> TRUE]
         ELSE [value |-> h[node].values[nodeIndex], panic |-> FALSE]
    ELSE LET ni   == NodeIndex(index, depth, level)
             next == h[node].children[ni]
         IN IF next = 0 THEN MissingChild
            ELSE VGetWalk(h, next, index, depth, level + 1, ni)

\* v.Get(index) on heap h
VectorGet(h, v, index) ==
    IF OutOfBounds(v, index) THEN [value |-> VNil, panic |-> TRUE]
    ELSE IF v.root = 0 THEN [value |-> VNil, panic |-> TRUE]
    ELSE VGetWalk(h, v.root, index + v.offset, v.depth, 1, index + v.offset)

\* capacity *= bucketSize, on a uint32 (modulo 2^32)
MulBucketSize(capacity) == (capacity % (2 ^ (32 - bucketBits))) * bucketSize

RECURSIVE Grow(_, _, _)
\* for size > capacity { capacity *= bucketSize; depth++ }
Grow(size, capacity, depth) ==
    IF size > capacity THEN Grow(size, MulBucketSize(capacity), depth + 1)
    ELSE [capacity |-> capacity, depth |-> depth]

\* a Resize that always drops the offset
ResizeOffsetZero(v, size) == 0

\* offset := v.offset; if size == 0 { offset = 0 }
ResizeOffset(v, size) == IF size = 0 THEN 0 ELSE v.offset

\* v.Resize(size) on heap h
VectorResize(h, v, size) ==
    LET fresh == v.capacity = 0
        g     == Grow(size, IF fresh THEN bucketSize ELSE v.capacity,
                            IF fresh THEN 1 ELSE v.depth)
    IN [h |-> IF fresh THEN Append(h, ZeroNode) ELSE h,
        v |-> [size     |-> size,
               capacity |-> g.capacity,
               depth    |-> g.depth,
               offset   |-> ResizeOffset(v, size),
               root     |-> IF fresh THEN Len(h) + 1 ELSE v.root],
        panic |-> FALSE]

\* v.Append(value) on heap h
VectorAppend(h, v, value) ==
    LET appended == VectorResize(h, v, v.size + 1)
    IN VectorSet(appended.h, appended.v, v.size, value)

\* a Slice that keeps the end it was given
ClampEndNot(v, end) == end

\* if end >= v.size { end = v.size }
ClampEnd(v, end) == IF end >= v.size THEN v.size ELSE end

\* a Slice that keeps the offset of the vector it slices
SliceOffsetKept(v, start) == v.offset

\* offset: start
SliceOffset(v, start) == start

\* v.Slice(start, end) on heap h
VectorSlice(h, v, start, end) ==
    IF end < start THEN VPanic
    ELSE IF end = start \/ start >= v.size
    THEN [h |-> h, v |-> ZeroVector, panic |-> FALSE]
    ELSE [h |-> h,
          v |-> [size     |-> ClampEnd(v, end) - start,
                 capacity |-> v.capacity,
                 depth    |-> v.depth,
                 offset   |-> SliceOffset(v, start),
                 root     |-> v.root],
          panic |-> FALSE]

\* v.Size()
VectorSize(v) == v.size

(* ------------------------- Vector with Elements -------------------------- *)
(* src/unnamed/part_003, lines 179-428: the Vector whose nodes hold slices  *)
(* (values []interface{}, children []*vectorNode), whose loops run while    *)
(* level < v.depth, whose Resize wraps the root (bumpUp), and that has      *)
(* Elements and VectorRange.  A nil slice is the empty function; a slice    *)
(* that was made has the indexes 0..bucketSize-1.  Names that src/vector.go *)
(* also has end in 2.                                                       *)

\* a nil slice, and len(a) == 0 for the slices of a node
NilArray == << >>
IsNil(a) == DOMAIN a = {}

\* &vectorNode{}
ZeroNode2 == [values |-> NilArray, children |-> NilArray]

\* make([]interface{}, bucketSize) and make([]*vectorNode, bucketSize)
MakeValues == [i \in 0..bucketMask |-> VNil]
MakeChildren == [i \in 0..bucketMask |-> 0]

\* copy(dst, src): the first min(len(dst), len(src)) elements
CopyInto(dst, src) == [i \in DOMAIN dst |-> IF i \in DOMAIN src THEN src[i] ELSE dst[i]]

\* what a call that panics returns
VPanic2 == [h |-> << >>, v |-> ZeroVector, panic |-> TRUE]

\* src.children[nodeIndex], which fails on a nil slice
ChildAt(h, node, nodeIndex) ==
    IF IsNil(h[node].children) THEN [node |-> 0, panic |-> TRUE]
    ELSE [node |-> h[node].children[nodeIndex], panic |-> FALSE]

RECURSIVE VSetWalk2(_, _, _, _, _, _)
\* for level := uint32(1); level < v.depth; level++ { ... } of Set
VSetWalk2(h, dst, src, index, depth, level) ==
    IF level >= depth
    THEN [h |-> h, dst |-> dst, src |-> src, panic |-> FALSE]
    ELSE LET ni       == NodeIndex(index, depth, level)
             nextNode == Len(h) + 1
             children == IF src # 0 THEN CopyInto(MakeChildren, h[src].children)
                         ELSE MakeChildren
             next     == IF src # 0 THEN ChildAt(h, src, ni)
                         ELSE [node |-> 0, panic |-> FALSE]
             h1       == Append([h EXCEPT ![dst].children =
                                    [children EXCEPT ![ni] = nextNode]],
                                ZeroNode2)
         IN IF next.panic
            THEN [h |-> h, dst |-> dst, src |-> src, panic |-> TRUE]
            ELSE VSetWalk2(h1, nextNode, next.node, index, depth, level + 1)

\* if dst.values == nil { dst.values = make(...) };
\* if src != nil { copy(dst.values, src.values) }
CopyLeafValues2(h, src) ==
    IF src # 0 THEN CopyInto(MakeValues, h[src].values) ELSE MakeValues

\* v.Set(index, value) on heap h: the heap after and the Vector returned
VectorSet2(h, v, index, value) ==
    IF OutOfBounds(v, index) THEN VPanic2
    ELSE LET idx     == index + v.offset
             newRoot == Len(h) + 1
             w       == VSetWalk2(Append(h, ZeroNode2), newRoot, v.root,
                                  idx, v.depth, 1)
         IN IF w.panic THEN VPanic2
            ELSE [h |-> [w.h EXCEPT ![w.dst].values =
                            [CopyLeafValues2(w.h, w.src) EXCEPT ![idx % bucketSize] = value]],
                  v |-> [v EXCEPT !.root = newRoot],
                  panic |-> FALSE]

RECURSIVE VGetWalk2(_, _, _, _, _)
\* for level := uint32(1); level < v.depth; level++ { ... } of Get, and
\* if node.values == nil { return nil }; return node.values[index&bucketMask]
VGetWalk2(h, node, index, depth, level) ==
    IF level >= depth
    THEN IF node = 0 THEN [value |-> VNil, panic |-> TRUE]
         ELSE IF IsNil(h[node].values) THEN [value |-> VNil, panic |-> FALSE]
         ELSE [value |-> h[node].values[index % bucketSize], panic |-> FALSE]
    ELSE IF node = 0 THEN [value |-> VNil, panic |-> TRUE]
    ELSE LET next == ChildAt(h, node, NodeIndex(index, depth, level))
         IN IF next.panic THEN [value |-> VNil, panic |-> TRUE]
            ELSE IF next.node = 0 THEN [value |-> VNil, panic |-> FALSE]
            ELSE VGetWalk2(h, next.node, index, depth, level + 1)

\* v.Get(index) on heap h
VectorGet2(h, v, index) ==
    IF OutOfBounds(v, index) THEN [value |-> VNil, panic |-> TRUE]
    ELSE VGetWalk2(h, v.root, index + v.offset, v.depth, 1)

\* bumpUp(root): a new root whose child 0 is the old root
bumpUp(h, root) ==
    [h |-> Append(h, [values |-> NilArray,
                      children |-> [MakeChildren EXCEPT ![0] = root]]),
     root |-> Len(h) + 1]

RECURSIVE GrowUp(_, _, _, _, _)
\* for size > capacity { capacity *= bucketSize; depth++; root = bumpUp(root) }
GrowUp(h, size, capacity, depth, root) ==
    IF size > capacity
    THEN LET up == bumpUp(h, root)
         IN GrowUp(up.h, size, MulBucketSize(capacity), depth + 1, up.root)
    ELSE [h |-> h, capacity |-> capacity, depth |-> depth, root |-> root]

\* v.Resize(size) on heap h
VectorResize2(h, v, size) ==
    LET fresh == v.capacity = 0 /\ size > 0
        g     == GrowUp(IF fresh THEN Append(h, ZeroNode2) ELSE h,
                        size,
                        IF fresh THEN bucketSize ELSE v.capacity,
                        IF fresh THEN 1 ELSE v.depth,
                        IF fresh THEN Len(h) + 1 ELSE v.root)
    IN [h |-> g.h,
        v |-> [size     |-> size,
               capacity |-> g.capacity,
               depth    |-> g.depth,
               offset   |-> ResizeOffset(v, size),
               root     |-> g.root],
        panic |-> FALSE]

\* v.Append(value) on heap h
VectorAppend2(h, v, value) ==
    LET appended == VectorResize2(h, v, v.size + 1)
    IN VectorSet2(appended.h, appended.v, v.size, value)

\* v.Slice(start, end): the code of src/vector.go, line for line
VectorSlice2(h, v, start, end) == VectorSlice(h, v, start, end)

\* v.Elements(): VectorRange{vector: v}
Elements(v) ==
    [vector |-> v, position |-> 0, nodePosition |-> 0, root |-> 0, node |-> 0]

RECURSIVE RangeWalk(_, _, _, _, _)
\* the loop of Next: if node == nil { break }; node = node.children[nodeIndex]
RangeWalk(h, node, index, depth, level) ==
    IF level >= depth THEN [node |-> node, panic |-> FALSE]
    ELSE IF node = 0 THEN [node |-> node, panic |-> FALSE]
    ELSE LET next == ChildAt(h, node, NodeIndex(index, depth, level))
         IN IF next.panic THEN next
            ELSE RangeWalk(h, next.node, index, depth, level + 1)

\* index := vr.position
RangeIndex(vr) == vr.position

\* (vr *VectorRange).Next(): the range after the call and what it returned
VectorRangeNext(h, vr) ==
    LET first == vr.root = 0
        vr1   == IF first
                 THEN [vr EXCEPT !.root = vr.vector.root, !.nodePosition = bucketSize]
                 ELSE [vr EXCEPT !.position = vr.position + 1,
                                 !.nodePosition = vr.nodePosition + 1]
        w     == RangeWalk(h, vr1.root, RangeIndex(vr1), vr1.vector.depth, 1)
    IN IF vr1.position = vr1.vector.size
       THEN [vr |-> vr1, more |-> FALSE, panic |-> FALSE]
       ELSE IF vr1.root # 0 /\ vr1.nodePosition = bucketSize
       THEN IF w.panic THEN [vr |-> vr1, more |-> FALSE, panic |-> TRUE]
            ELSE [vr |-> [vr1 EXCEPT !.nodePosition = 0, !.node = w.node],
                  more |-> TRUE, panic |-> FALSE]
       ELSE [vr |-> vr1, more |-> TRUE, panic |-> FALSE]

\* (vr *VectorRange).Get(): node.values[nodePosition] fails on a nil slice
VectorRangeGet(h, vr) ==
    IF vr.node = 0 THEN [value |-> VNil, panic |-> FALSE]
    ELSE IF IsNil(h[vr.node].values) THEN [value |-> VNil, panic |-> TRUE]
    ELSE IF vr.nodePosition >= bucketSize THEN [value |-> VNil, panic |-> TRUE]
    ELSE [value |-> h[vr.node].values[vr.nodePosition], panic |-> FALSE]

(* ---------------------------- Map with Size ------------------------------ *)
(* src/unnamed/part_000, lines 20-326: the Map that counts its entries     *)
(* (leafCount, capacity, size) and whose leaves hold leafCount lists.  The  *)
(* descent is the one of src/map.go; names that src/map.go also has end    *)
(* in 2.  hashFunc is the one of the cheaphash build (src/vector.go).       *)

leafStartCount == 1

\* capacity := 1; capacity *= bucketCount, levels times; capacity *= leafCount
mapCapacity(leafCount) == (bucketCount ^ levels) * leafCount

\* Map{}: the zero Map
ZeroMap2 == [leafCount |-> 0, capacity |-> 0, size |-> 0, root |-> EmptyBucket]

\* hash % n for a hash below 2^20 (after the descent) or n below 2^15
HashMod(hash, n) == ((hash.hi % n) * (Half % n) + hash.lo) % n

\* for l := 0; l < levels; l++ { hash /= bucketCount }
LeafHash(hash) == Shift(Shift(Shift(Shift(hash))))

\* the head of Set: the first Set sets leafCount and capacity, a Set on a
\* map that is half full doubles them
Grown(m) ==
    IF m.capacity = 0
    THEN [m EXCEPT !.leafCount = leafStartCount,
                   !.capacity = mapCapacity(leafStartCount)]
    ELSE IF m.size * 2 >= m.capacity
         THEN [m EXCEPT !.leafCount = @ * 2, !.capacity = @ * 2]
         ELSE m

\* make([]elementList, n); copy(newValues, values)
CopyValuesN(varrs, values, n) ==
    [i \in 0..(n - 1) |-> IF i < values.len THEN varrs[values.arr][i] ELSE NilSlice]

RECURSIVE Rehash(_, _, _, _, _, _, _)
\* for _, list := range b.values { for _, element := range list { ... } }:
\* every element is appended to the new list its key's hash selects
Rehash(earrs, varrs, values, leafCount, li, ei, newValues) ==
    IF li >= values.len THEN [earrs |-> earrs, newValues |-> newValues]
    ELSE LET list == varrs[values.arr][li]
         IN IF ei > list.len
            THEN Rehash(earrs, varrs, values, leafCount, li + 1, 1, newValues)
            ELSE LET element    == earrs[list.arr][ei]
                     valueIndex == HashMod(LeafHash(HashOf[element.key]), leafCount)
                     a          == AppendElement(earrs, newValues[valueIndex], element)
                 IN Rehash(a.earrs, varrs, values, leafCount, li, ei + 1,
                           [newValues EXCEPT ![valueIndex] = a.list])

\* Set returns m, its own copy of the receiver, with the count one up
SetReturnsSame(m, root) == [m EXCEPT !.root = root]
SetReturns(m, root) == [m EXCEPT !.root = root, !.size = @ + 1]

\* m.Set(key, value) on heap h: the heap after and the Map returned
MapSet2(h, m, key, value) ==
    IF HashOf[key] = Panic THEN [h |-> h, m |-> m, panic |-> TRUE]
    ELSE
    LET m1     == Grown(m)
        w      == SetWalk(h.nodes, m1.root, 0, HashOf[key], 0)
        values == w.nodes[w.b].values
        re     == IF values.len # m1.leafCount
                  THEN Rehash(h.earrs, h.varrs, values, m1.leafCount, 0, 1,
                              [i \in 0..(m1.leafCount - 1) |-> NilSlice])
                  ELSE [earrs |-> h.earrs,
                        newValues |-> CopyValuesN(h.varrs, values, m1.leafCount)]
        va     == Len(h.varrs) + 1
        varrs1 == Append(h.varrs, re.newValues)
        nodes1 == [w.nodes EXCEPT ![w.b].values =
                      [arr |-> va, len |-> m1.leafCount, cap |-> m1.leafCount]]
        valueIndex == HashMod(w.hash, m1.leafCount)
        c      == CopyList(re.earrs, varrs1[va][valueIndex])
        i      == FindKey(c.earrs, c.list, key)
        a      == AppendElement(c.earrs, c.list, [key |-> key, value |-> value])
    IN IF i # 0
       THEN [h |-> [nodes |-> nodes1,
                    varrs |-> [varrs1 EXCEPT ![va][valueIndex] = c.list],
                    earrs |-> StoreValue(c.earrs, c.list, i, value)],
             m |-> SetReturnsSame(m1, w.root), panic |-> FALSE]
       ELSE [h |-> [nodes |-> nodes1,
                    varrs |-> [varrs1 EXCEPT ![va][valueIndex] = a.list],
                    earrs |-> a.earrs],
             m |-> SetReturns(m1, w.root), panic |-> FALSE]

\* m.Get(key) on heap h
MapGet2(h, m, key) ==
    IF m.capacity = 0 THEN NotFound
    ELSE IF HashOf[key] = Panic THEN Panicked
    ELSE
    LET w == GetWalk(h.nodes, m.root, HashOf[key], 0)
    IN IF ~w.found THEN NotFound
       ELSE IF w.b.values.len = 0 THEN NotFound
       ELSE LET list == h.varrs[w.b.values.arr][HashMod(w.hash, w.b.values.len)]
                i    == FindKey(h.earrs, list, key)
            IN IF i = 0 THEN NotFound
               ELSE [value |-> h.earrs[list.arr][i].value, ok |-> TRUE, panic |-> FALSE]

\* Map{size: m.size - 1, root: root}: leafCount and capacity are left zero
DeleteReturns(m, root) ==
    [leafCount |-> 0, capacity |-> 0, size |-> m.size - 1, root |-> root]

\* m.Delete(key) on heap h: the heap after (with what the call allocated,
\* also when it returns m) and the Map returned
MapDelete2(h, m, key) ==
    IF m.capacity = 0 THEN [h |-> h, m |-> m, panic |-> FALSE]
    ELSE IF HashOf[key] = Panic THEN [h |-> h, m |-> m, panic |-> TRUE]
    ELSE
    LET w == DeleteWalk(h.nodes, m.root, 0, HashOf[key], 0)
        h0 == [h EXCEPT !.nodes = w.nodes]
    IN IF ~w.found THEN [h |-> h0, m |-> m, panic |-> FALSE]
       ELSE IF w.nodes[w.b].values.len = 0
            THEN [h |-> h0, m |-> m, panic |-> FALSE]
       ELSE
       LET va     == Len(h.varrs) + 1
           varrs1 == Append(h.varrs, CopyValuesN(h.varrs, w.nodes[w.b].values, m.leafCount))
           nodes1 == [w.nodes EXCEPT ![w.b].values =
                         [arr |-> va, len |-> m.leafCount, cap |-> m.leafCount]]
           valueIndex == HashMod(w.hash, m.leafCount)
           c      == CopyList(h.earrs, varrs1[va][valueIndex])
           i      == FindKey(c.earrs, c.list, key)
           r      == RemoveElement(c.earrs, c.list, i)
       IN IF i # 0
          THEN [h |-> [nodes |-> nodes1,
                       varrs |-> [varrs1 EXCEPT ![va][valueIndex] = r.list],
                       earrs |-> r.earrs],
                m |-> DeleteReturns(m, w.root), panic |-> FALSE]
          ELSE [h |-> [nodes |-> nodes1, varrs |-> varrs1, earrs |-> c.earrs],
                m |-> m, panic |-> FALSE]

\* m.Size()
MapSize2(m) == m.size

(* -------------------------------- state --------------------------------- *)

VARIABLES
    nodes,      \* the *bucket objects allocated so far
    varrs,      \* the backing arrays of values slices
    earrs,      \* the backing arrays of element lists
    versions,   \* the Map values the program holds, the zero Map first
    origin,     \* origin[i]: the call that returned versions[i]
    snaps,      \* snaps[i][k]: what versions[i].Get(k) returned when it was made
    last        \* the last call and its outcome

VARIABLES
    vnodes,     \* the *vectorNode objects allocated so far
    vecs,       \* the Vector values the program holds, the zero Vector first
    vorigin,    \* vorigin[i]: the call that returned vecs[i]
    vsnaps,     \* vsnaps[i]: vecs[i].Size() and every Get when it was made
    vlast       \* the last Vector call and its outcome

VARIABLES
    wr,         \* the writer thread: the call it is in and that call's locals
    rd,         \* the reader thread: the call it is in and that call's locals
    wbase       \* the heap as it was when the writer's call began

mvars == <<nodes, varrs, earrs, versions, origin, snaps, last>>
vvars == <<vnodes, vecs, vorigin, vsnaps, vlast>>
cvars == <<wr, rd, wbase>>
vars == <<nodes, varrs, earrs, versions, origin, snaps, last,
          vnodes, vecs, vorigin, vsnaps, vlast, wr, rd, wbase>>

Heap == [nodes |-> nodes, varrs |-> varrs, earrs |-> earrs]

EmptyHeap == [nodes |-> << >>, varrs |-> << >>, earrs |-> << >>]

Values == 1..MaxVal

Observe(h, m) == [k \in Keys |-> MapGet(h, m, k)]

NoCall == [op |-> "none", from |-> 0, key |-> "", panic |-> FALSE,
           stop |-> 0, calls |-> << >>]

\* v.Size() and v.Get(j) for every j < v.Size()
VObserve(h, v) ==
    [size |-> VectorSize(v),
     gets |-> [j \in 0..(v.size - 1) |-> VectorGet(h, v, j)]]

VNoCall == [op |-> "none", from |-> 0, a |-> 0, b |-> 0, panic |-> FALSE]

\* the writer between two calls; in a call, pc is the place it has reached
\* and the other fields are the call's arguments and local variables
WIdle ==
    [pc |-> "idle", op |-> "none", from |-> 0, key |-> "", value |-> 0,
     root |-> EmptyBucket, b |-> 0, hash |-> ZeroHash, level |-> 0,
     list |-> NilSlice,
     v |-> ZeroVector, index |-> 0, node |-> 0, newNode |-> 0, newRoot |-> 0,
     nodeIndex |-> 0, a |-> 0]

\* the reader between two calls; got is what its last call returned, alone
\* what that call returns when nothing else runs, raced whether the writer
\* took a step while the call was running
RIdle ==
    [pc |-> "idle", op |-> "none", from |-> 0, key |-> "",
     b |-> 0, hash |-> ZeroHash, level |-> 0,
     index |-> 0, node |-> 0, nodeIndex |-> 0,
     got |-> << >>, alone |-> << >>, raced |-> FALSE,
     vr |-> Elements(ZeroVector), times |-> 0]

\* the four heaps together
AllHeaps == [nodes |-> nodes, varrs |-> varrs, earrs |-> earrs, vnodes |-> vnodes]

CInit ==
    /\ wr = WIdle
    /\ rd = RIdle
    /\ wbase = [nodes |-> << >>, varrs |-> << >>, earrs |-> << >>, vnodes |-> << >>]

VInit ==
    /\ vnodes = << >>
    /\ vecs = <<ZeroVector>>
    /\ vorigin = <<[op |-> "zero", from |-> 0, a |-> 0, b |-> 0]>>
    /\ vsnaps = <<VObserve(<< >>, ZeroVector)>>
    /\ vlast = VNoCall

Init ==
    /\ VInit
    /\ CInit
    /\ nodes = << >>
    /\ varrs = << >>
    /\ earrs = << >>
    /\ versions = <<ZeroMap>>
    /\ origin = <<[op |-> "zero", from |-> 0, key |-> "", value |-> NilValue]>>
    /\ snaps = <<Observe(EmptyHeap, ZeroMap)>>
    /\ last = NoCall

\* A run is a series of calls, each on any version made so far.  It ends
\* with a panic (which is fatal) or with a Range, whose visitor calls are
\* kept in `last`: Range changes nothing, so every Range of every reachable
\* version is covered.  A Get that returns leaves the state as it is; what
\* it returns is MapGet.
Ended == last.op # "none"

\* a call that returns a Map: the heap it leaves and the version it adds,
\* or the panic that ends the run
Returns(r, op, i, key, value) ==
    IF r.panic
    THEN /\ UNCHANGED <<nodes, varrs, earrs, versions, origin, snaps>>
         /\ last' = [NoCall EXCEPT !.op = op, !.key = key, !.panic = TRUE]
         /\ UNCHANGED <<vvars, cvars>>
    ELSE /\ nodes' = r.h.nodes
         /\ varrs' = r.h.varrs
         /\ earrs' = r.h.earrs
         /\ versions' = Append(versions, r.m)
         /\ origin' = Append(origin, [op |-> op, from |-> i, key |-> key, value |-> value])
         /\ snaps' = Append(snaps, Observe(r.h, r.m))
         /\ UNCHANGED last
         /\ UNCHANGED <<vvars, cvars>>

\* versions[i].Set(key, value)
DoSet(i, key, value, depth) ==
    /\ ~Ended
    /\ Len(versions) <= depth
    /\ Returns(MapSet(Heap, versions[i], key, value), "Set", i, key, value)

\* versions[i].Delete(key)
DoDelete(i, key, depth) ==
    /\ ~Ended
    /\ Len(versions) <= depth
    /\ Returns(MapDelete(Heap, versions[i], key), "Delete", i, key, NilValue)

\* versions[i].Get(key)
DoGet(i, key) ==
    /\ ~Ended
    /\ last' = IF MapGet(Heap, versions[i], key).panic
               THEN [NoCall EXCEPT !.op = "Get", !.key = key, !.panic = TRUE]
               ELSE last
    /\ UNCHANGED <<nodes, varrs, earrs, versions, origin, snaps>>
    /\ UNCHANGED <<vvars, cvars>>

\* versions[i].Range(visitor)
DoRange(i, stop) ==
    /\ ~Ended
    /\ last' = [NoCall EXCEPT !.op = "Range", !.from = i, !.stop = stop,
                              !.calls = MapRange(Heap, versions[i], stop)]
    /\ UNCHANGED <<nodes, varrs, earrs, versions, origin, snaps>>
    /\ UNCHANGED <<vvars, cvars>>

\* the calls with keys drawn from K, making at most depth versions
NextOn(K, depth) ==
    \/ \E i \in DOMAIN versions, key \in K, value \in Values : DoSet(i, key, value, depth)
    \/ \E i \in DOMAIN versions, key \in K : DoDelete(i, key, depth)
    \/ \E i \in DOMAIN versions, key \in K : DoGet(i, key)
    \/ \E i \in DOMAIN versions, stop \in 0..MaxStop : DoRange(i, stop)

\* the keys that exercise the trie: two keys of one leaf list (equal
\* digests), a key of another slot of that leaf, a key that leaves their path
\* at the third level (and is == to one of them), and one that leaves it at
\* the root (and is == to nothing)
TrieKeys == {"str_empty", "f64_pos0", "str_84_04", "f64_neg0", "f64_nan"}

Next == NextOn(TrieKeys, MaxVersions)

Spec == Init /\ [][Next]_vars

\* every kind of key, on shorter runs
KeyNext == NextOn(Keys, MaxKeyVersions)

KeySpec == Init /\ [][KeyNext]_vars

(* --------------------------- the Vector program -------------------------- *)
(* A run is a series of Vector calls, each on any Vector made so far.  It  *)
(* ends with a panic.  A Get that returns leaves the state as it is.       *)

VEnded == vlast.op # "none"

\* a call that returns a Vector: the heap it leaves and the version it adds,
\* or the panic that ends the run
VReturns(r, op, i, a, b) ==
    /\ IF r.panic
       THEN /\ UNCHANGED <<vnodes, vecs, vorigin, vsnaps>>
            /\ vlast' = [op |-> op, from |-> i, a |-> a, b |-> b, panic |-> TRUE]
       ELSE /\ vnodes' = r.h
            /\ vecs' = Append(vecs, r.v)
            /\ vorigin' = Append(vorigin, [op |-> op, from |-> i, a |-> a, b |-> b])
            /\ vsnaps' = Append(vsnaps, VObserve(r.h, r.v))
            /\ UNCHANGED vlast
    /\ UNCHANGED <<mvars, cvars>>

\* vecs[i].Set(index, value)
DoVSet(i, index, value, depth) ==
    /\ ~VEnded
    /\ Len(vecs) <= depth
    /\ VReturns(VectorSet(vnodes, vecs[i], index, value), "Set", i, index, value)

\* vecs[i].Append(value)
DoVAppend(i, value, depth) ==
    /\ ~VEnded
    /\ Len(vecs) <= depth
    /\ VReturns(VectorAppend(vnodes, vecs[i], value), "Append", i, value, 0)

\* vecs[i].Resize(size)
DoVResize(i, size, depth) ==
    /\ ~VEnded
    /\ Len(vecs) <= depth
    /\ VReturns(VectorResize(vnodes, vecs[i], size), "Resize", i, size, 0)

\* vecs[i].Slice(start, end)
DoVSlice(i, start, end, depth) ==
    /\ ~VEnded
    /\ Len(vecs) <= depth
    /\ VReturns(VectorSlice(vnodes, vecs[i], start, end), "Slice", i, start, end)

\* vecs[i].Get(index)
DoVGet(i, index) ==
    /\ ~VEnded
    /\ vlast' = IF VectorGet(vnodes, vecs[i], index).panic
                THEN [op |-> "Get", from |-> i, a |-> index, b |-> 0, panic |-> TRUE]
                ELSE vlast
    /\ UNCHANGED <<vnodes, vecs, vorigin, vsnaps>>
    /\ UNCHANGED <<mvars, cvars>>

\* the sizes, indexes and range ends of the calls: the small numbers and
\* the numbers around the capacity of one node
VSizes == {0, 1, 2, bucketSize, bucketSize + 1}
VIndexes == {0, 1, 2, bucketSize - 1, bucketSize}
VEnds == {0, 1, 2, bucketSize + 1}
VValues == 0..MaxVVal

VecNext ==
    \/ \E i \in DOMAIN vecs, index \in VIndexes, value \in VValues :
          DoVSet(i, index, value, MaxVecVersions)
    \/ \E i \in DOMAIN vecs, value \in VValues : DoVAppend(i, value, MaxVecVersions)
    \/ \E i \in DOMAIN vecs, size \in VSizes : DoVResize(i, size, MaxVecVersions)
    \/ \E i \in DOMAIN vecs, start \in VEnds, end \in VEnds :
          DoVSlice(i, start, end, MaxVecVersions)
    \/ \E i \in DOMAIN vecs, index \in VIndexes : DoVGet(i, index)

VecSpec == Init /\ [][VecNext]_vars

(* ---------------------------- the fill program --------------------------- *)
(* v := Vector{}.Resize(n); for i := 0; i < n; i++ { v = v.Set(i, i) };    *)
(* slice := v.Slice(a, b): the program of the Slice tests.                 *)

\* the sizes filled: within one node, and past its capacity
FillSizes == {1, 2, 3, bucketSize + 1, bucketSize + 2}

\* the number of Sets the loop has made
Filled == Len(vecs) - 2

\* v := Vector{}.Resize(n)
DoFillResize(n) ==
    /\ Len(vecs) = 1
    /\ VReturns(VectorResize(vnodes, vecs[1], n), "Resize", 1, n, 0)

\* v = v.Set(i, i), for the next i
DoFillSet ==
    /\ Len(vecs) >= 2
    /\ vorigin[Len(vecs)].op # "Slice"
    /\ Filled < VectorSize(vecs[Len(vecs)])
    /\ VReturns(VectorSet(vnodes, vecs[Len(vecs)], Filled, Filled),
                "Set", Len(vecs), Filled, Filled)

\* slice := v.Slice(a, b), after the loop
DoFillSlice(a, b) ==
    /\ Len(vecs) >= 2
    /\ vorigin[Len(vecs)].op # "Slice"
    /\ Filled = VectorSize(vecs[Len(vecs)])
    /\ VReturns(VectorSlice(vnodes, vecs[Len(vecs)], a, b),
                "Slice", Len(vecs), a, b)

FillNext ==
    \/ \E n \in FillSizes : DoFillResize(n)
    \/ DoFillSet
    \/ \E b \in 1..VectorSize(vecs[Len(vecs)]) : \E a \in 0..(b - 1) :
          DoFillSlice(a, b)

FillSpec == Init /\ [][FillNext]_vars

(* -------------------------- the threaded program ------------------------- *)
(* One writer thread runs Set/Delete (Map) or Set/Append/Resize (Vector)   *)
(* on any value made so far, one statement group at a time; one reader     *)
(* thread runs Get/Range on any value made so far, one read of the heap   *)
(* at a time.  What a call returns becomes a value the threads can use     *)
(* when the call returns.  A run works on Maps or on Vectors.  Readers     *)
(* write nothing, so one reader stands for any number of them.             *)

\* versions the writer makes after the zero value
MaxConcVersions == 2

\* two keys of one leaf list and a key of another slot of that leaf
ConcKeys == {"str_empty", "f64_pos0", "str_84_04"}

\* the sizes and indexes of the Vector calls
ConcSizes == {1, 2, bucketSize + 1}
ConcIndexes == {0, 1, bucketSize}

WriterIdle == wr.pc = "idle"
ReaderFree == rd.pc \in {"idle", "done"}
MapRun == Len(vecs) = 1
VectorRun == Len(versions) = 1
\* a Map call has begun
MapReads == Len(versions) > 1 \/ wr.op \in {"Set", "Delete"}

\* a step of the writer, seen by a call of the reader that is running
Raced == IF ReaderFree THEN rd ELSE [rd EXCEPT !.raced = TRUE]

\* the writer's call returns the Map m
WReturnsMap(h, m) ==
    /\ nodes' = h.nodes
    /\ varrs' = h.varrs
    /\ earrs' = h.earrs
    /\ versions' = Append(versions, m)
    /\ origin' = Append(origin, [op |-> wr.op, from |-> wr.from,
                                 key |-> wr.key, value |-> wr.value])
    /\ snaps' = Append(snaps, Observe(h, m))
    /\ wr' = WIdle
    /\ rd' = Raced
    /\ UNCHANGED <<last, wbase>>
    /\ UNCHANGED vvars

\* the writer's call goes on, with heap h and locals w
WGoesOnMap(h, w) ==
    /\ nodes' = h.nodes
    /\ varrs' = h.varrs
    /\ earrs' = h.earrs
    /\ wr' = w
    /\ rd' = Raced
    /\ UNCHANGED <<versions, origin, snaps, last, wbase>>
    /\ UNCHANGED vvars

\* hash := hashValue(key); root := m.root; b := &root
WBeginMap(op, i, key, value) ==
    /\ WriterIdle
    /\ MapRun
    /\ Len(versions) <= MaxConcVersions
    /\ HashOf[key] # Panic
    /\ wr' = [WIdle EXCEPT !.pc = "walk", !.op = op, !.from = i, !.key = key,
                           !.value = value, !.root = versions[i].root,
                           !.hash = HashOf[key]]
    /\ wbase' = AllHeaps
    /\ rd' = Raced
    /\ UNCHANGED mvars
    /\ UNCHANGED vvars

\* m.Set(key, value) begins
DoWSet(i, key, value) == WBeginMap("Set", i, key, value)

\* m.Delete(key) begins
DoWDelete(i, key) == WBeginMap("Delete", i, key, NilValue)

\* a descent that goes on in the child it found instead of a copy of it
NewBucketInPlace(h, child) == IF child = 0 THEN Len(h) + 1 ELSE child

\* next = &bucket{...}: the address of the new node
NewBucket(h, child) == Len(h) + 1

\* one turn of the loop of Set and of Delete
DoWWalk ==
    /\ wr.pc = "walk"
    /\ LET bucketIndex == Digit(wr.hash)
           cur    == IF wr.b = 0 THEN wr.root ELSE nodes[wr.b]
           child  == cur.buckets[bucketIndex]
           next   == NewBucket(nodes, child)
           nodes1 == Append(nodes, CopyBucket(nodes, child))
           w      == [wr EXCEPT !.b = next,
                                !.hash = Shift(wr.hash),
                                !.level = wr.level + 1,
                                !.pc = IF wr.level + 1 >= levels THEN "values"
                                       ELSE "walk",
                                !.root = IF wr.b = 0
                                         THEN [wr.root EXCEPT !.buckets[bucketIndex] = next]
                                         ELSE wr.root]
       IN IF wr.op = "Delete" /\ child = 0
          THEN WReturnsMap(Heap, DeleteMiss(versions[wr.from], wr.root))
          ELSE WGoesOnMap([Heap EXCEPT !.nodes =
                              IF wr.b = 0 THEN nodes1
                              ELSE [nodes1 EXCEPT ![wr.b].buckets[bucketIndex] = next]],
                          w)

\* newValues := make(...); copy(newValues, b.values); b.values = newValues
\* (in Delete after: if len(b.values) == 0 { return m })
DoWValues ==
    /\ wr.pc = "values"
    /\ IF wr.op = "Delete" /\ nodes[wr.b].values.len = 0
       THEN WReturnsMap(Heap, DeleteMiss(versions[wr.from], wr.root))
       ELSE LET va == Len(varrs) + 1
            IN WGoesOnMap([Heap EXCEPT
                              !.varrs = Append(varrs, CopyValues(varrs, nodes[wr.b].values)),
                              !.nodes = [nodes EXCEPT ![wr.b].values =
                                  [arr |-> va, len |-> leaveCount, cap |-> leaveCount]]],
                          [wr EXCEPT !.pc = "list"])

\* list := b.values[valueIndex]; list = append(list[:0:0], list...)
DoWList ==
    /\ wr.pc = "list"
    /\ LET c == CopyList(earrs, varrs[nodes[wr.b].values.arr][Digit(wr.hash)])
       IN WGoesOnMap([Heap EXCEPT !.earrs = c.earrs],
                     [wr EXCEPT !.pc = "store", !.list = c.list])

\* the scan of the list and the write it ends with, and the return
DoWStore ==
    /\ wr.pc = "store"
    /\ LET va         == nodes[wr.b].values.arr
           valueIndex == Digit(wr.hash)
           i          == FindKey(earrs, wr.list, wr.key)
           a          == AppendElement(earrs, wr.list, [key |-> wr.key, value |-> wr.value])
           r          == RemoveElement(earrs, wr.list, i)
       IN IF wr.op = "Set"
          THEN IF i # 0
               THEN WReturnsMap([Heap EXCEPT
                                    !.earrs = StoreValue(earrs, wr.list, i, wr.value),
                                    !.varrs = [varrs EXCEPT ![va][valueIndex] = wr.list]],
                                [root |-> wr.root])
               ELSE WReturnsMap([Heap EXCEPT
                                    !.earrs = a.earrs,
                                    !.varrs = [varrs EXCEPT ![va][valueIndex] = a.list]],
                                [root |-> wr.root])
          ELSE IF i # 0
               THEN WReturnsMap([Heap EXCEPT
                                    !.earrs = r.earrs,
                                    !.varrs = [varrs EXCEPT ![va][valueIndex] = r.list]],
                                [root |-> wr.root])
               ELSE WReturnsMap(Heap, DeleteMiss(versions[wr.from], wr.root))

\* the reader's call goes on, or returns
RStep(r) ==
    /\ rd' = r
    /\ UNCHANGED <<wr, wbase>>
    /\ UNCHANGED mvars
    /\ UNCHANGED vvars

\* m.Get(key) begins: hash := hashValue(key); b := &m.root
DoRGet(i, key) ==
    /\ ReaderFree
    /\ MapRun
    /\ MapReads
    /\ HashOf[key] # Panic
    /\ RStep([RIdle EXCEPT !.pc = "walk", !.op = "Get", !.from = i, !.key = key,
                           !.hash = HashOf[key],
                           !.alone = MapGet(Heap, versions[i], key)])

\* one turn of the loop of Get
DoRWalk ==
    /\ rd.pc = "walk"
    /\ rd.level < levels
    /\ LET cur  == IF rd.b = 0 THEN versions[rd.from].root ELSE nodes[rd.b]
           next == cur.buckets[Digit(rd.hash)]
       IN IF next = 0
          THEN RStep([rd EXCEPT !.pc = "done", !.got = NotFound])
          ELSE RStep([rd EXCEPT !.b = next, !.hash = Shift(rd.hash),
                                !.level = rd.level + 1])

\* the end of Get: the list of the leaf and its scan
DoRScan ==
    /\ rd.pc = "walk"
    /\ rd.level >= levels
    /\ LET values == nodes[rd.b].values
           list   == varrs[values.arr][Digit(rd.hash)]
           i      == FindKey(earrs, list, rd.key)
       IN IF values.len = 0
          THEN RStep([rd EXCEPT !.pc = "done", !.got = NotFound])
          ELSE IF i = 0
          THEN RStep([rd EXCEPT !.pc = "done", !.got = NotFound])
          ELSE RStep([rd EXCEPT !.pc = "done",
                                !.got = [value |-> earrs[list.arr][i].value,
                                         ok |-> TRUE, panic |-> FALSE]])

\* m.Range(visitor) begins, with a visitor that always answers true
DoRRange(i) ==
    /\ ReaderFree
    /\ MapRun
    /\ MapReads
    /\ RStep([RIdle EXCEPT !.pc = "range", !.op = "Range", !.from = i,
                           !.got = << >>,
                           !.alone = MapRange(Heap, versions[i], 0)])

\* the walk of Range up to its next call of the visitor, or to its end
DoRVisit ==
    /\ rd.pc = "range"
    /\ LET all == MapRange(Heap, versions[rd.from], 0)
       IN IF Len(rd.got) < Len(all)
          THEN RStep([rd EXCEPT !.got = Append(rd.got, all[Len(rd.got) + 1])])
          ELSE RStep([rd EXCEPT !.pc = "done"])

\* the writer's call returns the Vector v
WReturnsVec(h, v) ==
    /\ vnodes' = h
    /\ vecs' = Append(vecs, v)
    /\ vorigin' = Append(vorigin, [op |-> wr.op, from |-> wr.from,
                                   a |-> wr.a, b |-> wr.value])
    /\ vsnaps' = Append(vsnaps, VObserve(h, v))
    /\ wr' = WIdle
    /\ rd' = Raced
    /\ UNCHANGED vlast
    /\ UNCHANGED mvars

\* the writer's call goes on, with heap h and locals w
WGoesOnVec(h, w) ==
    /\ vnodes' = h
    /\ wr' = w
    /\ rd' = Raced
    /\ UNCHANGED <<vecs, vorigin, vsnaps, vlast>>
    /\ UNCHANGED mvars

\* v.Set(index, value) begins, with index < v.size
DoWVSet(i, index, value) ==
    /\ WriterIdle
    /\ VectorRun
    /\ Len(vecs) <= MaxConcVersions
    /\ ~OutOfBounds(vecs[i], index)
    /\ wbase' = AllHeaps
    /\ WGoesOnVec(vnodes, [WIdle EXCEPT !.pc = "vroot", !.op = "VSet", !.from = i,
                                        !.a = index, !.value = value,
                                        !.v = vecs[i], !.index = index])

\* v.Append(value) begins: appended := v.Resize(v.size + 1)
DoWVAppend(i, value) ==
    /\ WriterIdle
    /\ VectorRun
    /\ Len(vecs) <= MaxConcVersions
    /\ wbase' = AllHeaps
    /\ LET appended == VectorResize(vnodes, vecs[i], vecs[i].size + 1)
       IN WGoesOnVec(appended.h,
                     [WIdle EXCEPT !.pc = "vroot", !.op = "VAppend", !.from = i,
                                   !.a = value, !.value = value,
                                   !.v = appended.v, !.index = vecs[i].size])

\* v.Resize(size)
DoWVResize(i, size) ==
    /\ WriterIdle
    /\ VectorRun
    /\ Len(vecs) <= MaxConcVersions
    /\ wbase' = AllHeaps
    /\ LET r == VectorResize(vnodes, vecs[i], size)
       IN /\ vnodes' = r.h
          /\ vecs' = Append(vecs, r.v)
          /\ vorigin' = Append(vorigin, [op |-> "VResize", from |-> i,
                                         a |-> size, b |-> 0])
          /\ vsnaps' = Append(vsnaps, VObserve(r.h, r.v))
          /\ wr' = WIdle
          /\ rd' = Raced
          /\ UNCHANGED vlast
          /\ UNCHANGED mvars

\* index += v.offset; node := v.root; nodeIndex := index;
\* newRoot := &vectorNode{}; newNode := newRoot
DoWVRoot ==
    /\ wr.pc = "vroot"
    /\ UNCHANGED wbase
    /\ WGoesOnVec(Append(vnodes, ZeroNode),
                  [wr EXCEPT !.index = wr.index + wr.v.offset,
                             !.nodeIndex = wr.index + wr.v.offset,
                             !.node = wr.v.root,
                             !.newRoot = Len(vnodes) + 1,
                             !.newNode = Len(vnodes) + 1,
                             !.level = 1,
                             !.pc = IF 1 > wr.v.depth THEN "vstore" ELSE "vwalk"])

\* one turn of the loop of Set
DoWVWalk ==
    /\ wr.pc = "vwalk"
    /\ UNCHANGED wbase
    /\ LET ni       == NodeIndex(wr.index, wr.v.depth, wr.level)
           nextNode == Len(vnodes) + 1
           copied   == [CopyChildren(vnodes, wr.node) EXCEPT ![ni] = nextNode]
       IN WGoesOnVec(Append([vnodes EXCEPT ![wr.newNode].children = copied], ZeroNode),
                     [wr EXCEPT !.nodeIndex = ni,
                                !.newNode = nextNode,
                                !.node = Deref(vnodes, wr.node).children[ni],
                                !.level = wr.level + 1,
                                !.pc = IF wr.level + 1 > wr.v.depth THEN "vstore"
                                       ELSE "vwalk"])

\* copy(newNode.values[:], node.values[:]); newNode.values[nodeIndex] = value;
\* return Vector{...}
DoWVStore ==
    /\ wr.pc = "vstore"
    /\ wr.nodeIndex < bucketSize
    /\ UNCHANGED wbase
    /\ WReturnsVec(StoreLeaf(vnodes, wr.newNode, wr.node, wr.nodeIndex, wr.value),
                   [wr.v EXCEPT !.root = wr.newRoot])

\* v.Get(index) begins, with index < v.size: index += v.offset; node := v.root
DoRVGet(i, index) ==
    /\ ReaderFree
    /\ VectorRun
    /\ ~OutOfBounds(vecs[i], index)
    /\ RStep([RIdle EXCEPT !.pc = "vwalk", !.op = "VGet", !.from = i,
                           !.index = index + vecs[i].offset,
                           !.nodeIndex = index + vecs[i].offset,
                           !.node = vecs[i].root,
                           !.level = 1,
                           !.alone = VectorGet(vnodes, vecs[i], index)])

\* one turn of the loop of Get
DoRVWalk ==
    /\ rd.pc = "vwalk"
    /\ rd.level <= vecs[rd.from].depth
    /\ LET ni   == NodeIndex(rd.index, vecs[rd.from].depth, rd.level)
           next == vnodes[rd.node].children[ni]
       IN IF next = 0
          THEN RStep([rd EXCEPT !.pc = "done", !.got = MissingChild])
          ELSE RStep([rd EXCEPT !.node = next, !.nodeIndex = ni,
                                !.level = rd.level + 1])

\* return node.values[nodeIndex]
DoRVLeaf ==
    /\ rd.pc = "vwalk"
    /\ rd.level > vecs[rd.from].depth
    /\ rd.nodeIndex < bucketSize
    /\ RStep([rd EXCEPT !.pc = "done",
                        !.got = [value |-> vnodes[rd.node].values[rd.nodeIndex],
                                 panic |-> FALSE]])

ConcNext ==
    \/ \E i \in DOMAIN versions, key \in ConcKeys, value \in Values : DoWSet(i, key, value)
    \/ \E i \in DOMAIN versions, key \in ConcKeys : DoWDelete(i, key)
    \/ DoWWalk
    \/ DoWValues
    \/ DoWList
    \/ DoWStore
    \/ \E i \in DOMAIN versions, key \in ConcKeys : DoRGet(i, key)
    \/ DoRWalk
    \/ DoRScan
    \/ \E i \in DOMAIN versions : DoRRange(i)
    \/ DoRVisit
    \/ \E i \in DOMAIN vecs, index \in ConcIndexes, value \in VValues :
          DoWVSet(i, index, value)
    \/ \E i \in DOMAIN vecs, value \in VValues : DoWVAppend(i, value)
    \/ \E i \in DOMAIN vecs, size \in ConcSizes : DoWVResize(i, size)
    \/ DoWVRoot
    \/ DoWVWalk
    \/ DoWVStore
    \/ \E i \in DOMAIN vecs, index \in ConcIndexes : DoRVGet(i, index)
    \/ DoRVWalk
    \/ DoRVLeaf

ConcSpec == Init /\ [][ConcNext]_vars

(* --------------------------- the Resize program -------------------------- *)
(* v := Vector{}.Resize(n1); v = v.Resize(n2); ...: each call runs its     *)
(* loop one turn at a time.  The locals of the call are in wr: wr.a is the *)
(* size asked for, wr.v holds size, capacity, depth, offset and root, and  *)
(* wr.level counts the turns of the loop.                                  *)

\* turns of the loop of one call that a run follows
MaxTurns == 8

\* the sizes asked for: small ones, the largest capacity a uint32 holds
\* (32^6 = 2^30) and sizes past it
ResizeSizes == {0, 1, bucketSize + 1, bucketSize * bucketSize + 1,
                2 ^ 30, 2 ^ 30 + 1, 2 ^ 30 + (2 ^ 30 - 1)}

\* the call's locals change, and the heap when a root is allocated
ResizeStep(h, w) ==
    /\ vnodes' = h
    /\ wr' = w
    /\ UNCHANGED <<vecs, vorigin, vsnaps, vlast, rd, wbase>>
    /\ UNCHANGED mvars

\* v.Resize(size) begins, on the zero Vector or on the Vector the last call
\* returned: the statements before the loop
DoResizeBegin(size) ==
    /\ wr.pc \in {"idle", "returned"}
    /\ Len(vecs) = 1
    /\ Len(versions) = 1
    /\ LET v     == IF wr.pc = "idle" THEN ZeroVector ELSE wr.v
           fresh == v.capacity = 0
       IN ResizeStep(IF fresh THEN Append(vnodes, ZeroNode) ELSE vnodes,
                     [WIdle EXCEPT
                        !.pc = "grow", !.op = "Resize", !.a = size,
                        !.v = [size     |-> size,
                               capacity |-> IF fresh THEN bucketSize ELSE v.capacity,
                               depth    |-> IF fresh THEN 1 ELSE v.depth,
                               offset   |-> ResizeOffset(v, size),
                               root     |-> IF fresh THEN Len(vnodes) + 1 ELSE v.root]])

\* for size > capacity { capacity *= bucketSize; depth++ }: one turn
DoResizeGrow ==
    /\ wr.pc = "grow"
    /\ wr.a > wr.v.capacity
    /\ wr.level < MaxTurns
    /\ ResizeStep(vnodes,
                  [wr EXCEPT !.v.capacity = MulBucketSize(wr.v.capacity),
                             !.v.depth = wr.v.depth + 1,
                             !.level = wr.level + 1])

\* the loop ends: return Vector{...}
DoResizeReturn ==
    /\ wr.pc = "grow"
    /\ ~(wr.a > wr.v.capacity)
    /\ ResizeStep(vnodes, [wr EXCEPT !.pc = "returned"])

ResizeNext ==
    \/ \E size \in ResizeSizes : DoResizeBegin(size)
    \/ DoResizeGrow
    \/ DoResizeReturn

ResizeSpec == Init /\ [][ResizeNext]_vars

(* ------------------------- the Elements program ------------------------- *)
(* A run makes Vectors with the calls of src/unnamed/part_003 and then     *)
(* walks one of them: r := v.Elements(); for r.Next() { x := r.Get() }.    *)
(* The range is rd.vr, rd.times counts the calls of Next that returned     *)
(* true and rd.got is what the last Get returned.                          *)

\* Vectors a run makes after the zero Vector before it walks one
MaxRangeVersions == 3

RangeSizes == {0, 1, 2, bucketSize + 1}
RangeIndexes == {0, 1, bucketSize}
RangeStarts == {0, 1, 2}
RangeEnds == {1, 2, bucketSize + 1}

\* v.Size() and v.Get(j) for every j < v.Size()
VObserve2(h, v) ==
    [size |-> VectorSize(v),
     gets |-> [j \in 0..(v.size - 1) |-> VectorGet2(h, v, j)]]

\* a call that returns a Vector, or the panic that ends the run
VReturns2(r, op, i, a, b) ==
    /\ ~VEnded
    /\ rd.pc = "idle"
    /\ Len(vecs) <= MaxRangeVersions
    /\ IF r.panic
       THEN /\ UNCHANGED <<vnodes, vecs, vorigin, vsnaps>>
            /\ vlast' = [op |-> op, from |-> i, a |-> a, b |-> b, panic |-> TRUE]
       ELSE /\ vnodes' = r.h
            /\ vecs' = Append(vecs, r.v)
            /\ vorigin' = Append(vorigin, [op |-> op, from |-> i, a |-> a, b |-> b])
            /\ vsnaps' = Append(vsnaps, VObserve2(r.h, r.v))
            /\ UNCHANGED vlast
    /\ UNCHANGED <<mvars, cvars>>

DoSet2(i, index, value) ==
    VReturns2(VectorSet2(vnodes, vecs[i], index, value), "Set", i, index, value)

DoAppend2(i, value) ==
    VReturns2(VectorAppend2(vnodes, vecs[i], value), "Append", i, value, 0)

DoResize2(i, size) ==
    VReturns2(VectorResize2(vnodes, vecs[i], size), "Resize", i, size, 0)

DoSlice2(i, start, end) ==
    VReturns2(VectorSlice2(vnodes, vecs[i], start, end), "Slice", i, start, end)

\* a step of the walk
RangeStep(r) ==
    /\ ~VEnded
    /\ rd' = r
    /\ UNCHANGED <<wr, wbase>>
    /\ UNCHANGED mvars
    /\ UNCHANGED vvars

\* r := vecs[i].Elements()
DoElements(i) ==
    /\ rd.pc = "idle"
    /\ RangeStep([RIdle EXCEPT !.pc = "ranging", !.op = "Elements", !.from = i,
                               !.vr = Elements(vecs[i])])

\* r.Next()
DoRangeNext ==
    /\ rd.pc = "ranging"
    /\ LET r == VectorRangeNext(vnodes, rd.vr)
       IN RangeStep([rd EXCEPT !.vr = r.vr,
                               !.op = "Next",
                               !.times = IF r.more THEN rd.times + 1 ELSE rd.times,
                               !.pc = IF r.panic THEN "panicked"
                                      ELSE IF r.more THEN "at" ELSE "end"])

\* x := r.Get()
DoRangeGet ==
    /\ rd.pc = "at"
    /\ LET g == VectorRangeGet(vnodes, rd.vr)
       IN RangeStep([rd EXCEPT !.op = "Get",
                               !.got = g,
                               !.pc = IF g.panic THEN "panicked" ELSE "ranging"])

RangeNext ==
    \/ \E i \in DOMAIN vecs, index \in RangeIndexes, value \in VValues :
          DoSet2(i, index, value)
    \/ \E i \in DOMAIN vecs, value \in VValues : DoAppend2(i, value)
    \/ \E i \in DOMAIN vecs, size \in RangeSizes : DoResize2(i, size)
    \/ \E i \in DOMAIN vecs, start \in RangeStarts, end \in RangeEnds :
          DoSlice2(i, start, end)
    \/ \E i \in DOMAIN vecs : DoElements(i)
    \/ DoRangeNext
    \/ DoRangeGet

RangeSpec == Init /\ [][RangeNext]_vars

(* ---------------------------- the Size program --------------------------- *)
(* A run is a series of calls of the Map of src/unnamed/part_000, each on   *)
(* any Map made so far, from the zero Map.  snaps[i] holds Size() and every *)
(* Get of versions[i] as they were when it was made.                        *)

\* at most this many Set and Delete calls in a run
MaxSizeVersions == 3

\* two keys of one leaf list and a key of another leaf, none == to another
SizeKeys == {"str_empty", "f64_pos0", "str_84_04"}

Observe2(h, m) ==
    [size |-> MapSize2(m), gets |-> [k \in Keys |-> MapGet2(h, m, k)]]

SizeInit ==
    /\ VInit
    /\ CInit
    /\ nodes = << >>
    /\ varrs = << >>
    /\ earrs = << >>
    /\ versions = <<ZeroMap2>>
    /\ origin = <<[op |-> "zero", from |-> 0, key |-> "", value |-> NilValue]>>
    /\ snaps = <<Observe2(EmptyHeap, ZeroMap2)>>
    /\ last = NoCall

\* a call that returns a Map: the heap it leaves and the version it adds
Returns2(r, op, i, key, value) ==
    /\ Len(versions) <= MaxSizeVersions
    /\ ~r.panic
    /\ nodes' = r.h.nodes
    /\ varrs' = r.h.varrs
    /\ earrs' = r.h.earrs
    /\ versions' = Append(versions, r.m)
    /\ origin' = Append(origin, [op |-> op, from |-> i, key |-> key, value |-> value])
    /\ snaps' = Append(snaps, Observe2(r.h, r.m))
    /\ UNCHANGED <<last, vvars, cvars>>

\* versions[i].Set(key, value)
DoMapSet2(i, key, value) ==
    Returns2(MapSet2(Heap, versions[i], key, value), "Set", i, key, value)

\* versions[i].Delete(key)
DoMapDelete2(i, key) ==
    Returns2(MapDelete2(Heap, versions[i], key), "Delete", i, key, NilValue)

SizeNext ==
    \/ \E i \in DOMAIN versions, key \in SizeKeys, value \in Values : DoMapSet2(i, key, value)
    \/ \E i \in DOMAIN versions, key \in SizeKeys : DoMapDelete2(i, key)

SizeSpec == SizeInit /\ [][SizeNext]_vars

(* ----------------------- the slice of a slice program -------------------- *)
(* The fill program, and then t := slice.Slice(c, d) on the slice it made.  *)

\* the sizes filled: within one node, and past its capacity
ComposeSizes == {2, 3, bucketSize + 1}

\* t := slice.Slice(c, d)
DoSliceAgain(c, d) ==
    /\ vorigin[Len(vecs)].op = "Slice"
    /\ vorigin[vorigin[Len(vecs)].from].op # "Slice"
    /\ VReturns(VectorSlice(vnodes, vecs[Len(vecs)], c, d), "Slice", Len(vecs), c, d)

ComposeNext ==
    \/ \E n \in ComposeSizes : DoFillResize(n)
    \/ DoFillSet
    \/ \E b \in 1..VectorSize(vecs[Len(vecs)]) : \E a \in 0..(b - 1) :
          DoFillSlice(a, b)
    \/ \E d \in 0..VectorSize(vecs[Len(vecs)]) : \E c \in 0..d :
          DoSliceAgain(c, d)

ComposeSpec == Init /\ [][ComposeNext]_vars

(* ------------------------------- the claims ----------------------------- *)

\* versions made by m.Set and by m.Delete
SetVersions == {j \in DOMAIN versions : origin[j].op = "Set"}
DeleteVersions == {j \in DOMAIN versions : origin[j].op = "Delete"}

Found(value) == [value |-> value, ok |-> TRUE, panic |-> FALSE]

\* a.Set(k, v2) where a = m.Set(k, v1): the pairs <<a, b>>
Rewrites ==
    {p \in SetVersions \X SetVersions :
        /\ origin[p[2]].from = p[1]
        /\ origin[p[2]].key = origin[p[1]].key}

\* every version still answers every Get as it did when it was returned
Persistent ==
    \A i \in DOMAIN versions : \A k \in Keys :
        MapGet(Heap, versions[i], k) = snaps[i][k]

\* C1 (as stated): no Set or Delete changes what any version's Get returns,
\* and for a = m.Set(k, v1), b = a.Set(k, v2): a.Get(k) = (v1, true) and
\* b.Get(k) = (v2, true), for every key k
C1_AsStated ==
    /\ Persistent
    /\ \A p \in Rewrites :
        /\ MapGet(Heap, versions[p[1]], origin[p[1]].key) = Found(origin[p[1]].value)
        /\ MapGet(Heap, versions[p[2]], origin[p[2]].key) = Found(origin[p[2]].value)

\* C1 (amended): no Set or Delete changes what any version's Get returns,
\* and for a = m.Set(k, v1), b = a.Set(k, v2) with k == k (k is not a NaN):
\* a.Get(k) = (v1, true) and b.Get(k) = (v2, true)
C1_Persistence ==
    /\ Persistent
    /\ \A p \in Rewrites :
        GoEqual(origin[p[1]].key, origin[p[1]].key) =>
            /\ MapGet(Heap, versions[p[1]], origin[p[1]].key) = Found(origin[p[1]].value)
            /\ MapGet(Heap, versions[p[2]], origin[p[2]].key) = Found(origin[p[2]].value)

\* a key was set, set again to another value in the version returned, and
\* a further version was made from the first one
C1_Witness ==
    \E p \in Rewrites : \E j \in DOMAIN versions :
        /\ origin[p[1]].value # origin[p[2]].value
        /\ GoEqual(origin[p[1]].key, origin[p[1]].key)
        /\ j > p[2]
        /\ origin[j].from = p[1]

\* C2 (as stated): m.Set(k, v).Get(k) = (v, true) for every key k that
\* hashValue accepts
C2_AsStated ==
    \A j \in SetVersions :
        MapGet(Heap, versions[j], origin[j].key) = Found(origin[j].value)

\* C2 (amended): m.Set(k, v).Get(k) = (v, true) for every key k that
\* hashValue accepts and that is == to itself (every key but a NaN),
\* whether or not k was present in m
C2_RoundTrip ==
    \A j \in SetVersions :
        GoEqual(origin[j].key, origin[j].key) =>
            MapGet(Heap, versions[j], origin[j].key) = Found(origin[j].value)

\* a Set of a key that m held with another value, in a list of two entries
C2_Witness ==
    \E j \in SetVersions :
        LET m == versions[origin[j].from]
            k == origin[j].key
        IN /\ MapGet(Heap, m, k).ok
           /\ MapGet(Heap, m, k).value # origin[j].value
           /\ \E k2 \in Keys : /\ ~GoEqual(k, k2)
                                /\ HashOf[k2] = HashOf[k]
                                /\ MapGet(Heap, m, k2).ok

\* C3: m.Set(k1, v).Get(k2) = m.Get(k2) for all keys k1 != k2
C3_SetFrame ==
    \A j \in SetVersions : \A k2 \in Keys :
        ~GoEqual(origin[j].key, k2) =>
            MapGet(Heap, versions[j], k2) = MapGet(Heap, versions[origin[j].from], k2)

\* a Set of k1 into the leaf list that holds k2, where the two digests agree
C3_Witness ==
    \E j \in SetVersions : \E k2 \in Keys :
        /\ ~GoEqual(origin[j].key, k2)
        /\ HashOf[k2] = HashOf[origin[j].key]
        /\ MapGet(Heap, versions[origin[j].from], k2).ok
        /\ MapGet(Heap, versions[j], origin[j].key).ok

\* m.Set(k, v).Delete(k): the pairs <<the Set's version, the Delete's>>
SetDeletes ==
    {p \in SetVersions \X DeleteVersions :
        /\ origin[p[2]].from = p[1]
        /\ origin[p[2]].key = origin[p[1]].key}

\* C4: m.Set(k, v).Delete(k).Get(k) = (nil, false)
C4_SetDelete ==
    \A p \in SetDeletes :
        MapGet(Heap, versions[p[2]], origin[p[2]].key) = NotFound

\* k was set in a map that holds another key in k's leaf list, and deleted
C4_Witness ==
    \E p \in SetDeletes : \E k2 \in Keys :
        LET k == origin[p[1]].key
        IN /\ MapGet(Heap, versions[p[1]], k).ok
           /\ ~GoEqual(k, k2)
           /\ HashOf[k2] = HashOf[k]
           /\ MapGet(Heap, versions[p[2]], k2).ok

\* C5: when m.Get(k) finds nothing, m.Delete(k) is m: the same root (every
\* child the same pointer) and the same answer to every Get
C5_DeleteAbsent ==
    \A j \in DeleteVersions :
        LET i == origin[j].from
        IN ~MapGet(Heap, versions[i], origin[j].key).ok =>
               /\ versions[j] = versions[i]
               /\ \A k \in Keys :
                     MapGet(Heap, versions[j], k) = MapGet(Heap, versions[i], k)

\* a Delete that walked down to a leaf list with an entry and found no match
C5_Witness ==
    \E j \in DeleteVersions : \E k2 \in Keys :
        LET i == origin[j].from
        IN /\ ~MapGet(Heap, versions[i], origin[j].key).ok
           /\ HashOf[k2] = HashOf[origin[j].key]
           /\ MapGet(Heap, versions[i], k2).ok

RECURSIVE Lineage(_)
\* the calls that made versions[i], the first one first
Lineage(i) ==
    IF origin[i].op = "zero" THEN << >>
    ELSE Append(Lineage(origin[i].from), origin[i])

\* the value of the last call of lineage L that wrote a key == k
LastWritten(L, k) ==
    L[CHOOSE n \in DOMAIN L :
        /\ GoEqual(L[n].key, k)
        /\ \A n2 \in DOMAIN L : GoEqual(L[n2].key, k) => n2 <= n].value

\* the number of distinct keys lineage L wrote: keys that are == count
\* once, and a NaN, which is == to nothing, counts every time
DistinctKeys(L) ==
    Cardinality({<<TypeOf(L[n].key), ValueOf(L[n].key)>> :
                    n \in {n2 \in DOMAIN L : GoEqual(L[n2].key, L[n2].key)}})
    + Cardinality({n \in DOMAIN L : ~GoEqual(L[n].key, L[n].key)})

\* C6 (as stated): on a map made by Set calls alone that wrote N distinct
\* keys, a Range whose visitor always answers true calls it exactly N times,
\* once per distinct key, with that key's last-written value
C6_AsStated ==
    (/\ last.op = "Range"
     /\ last.stop = 0
     /\ \A n \in DOMAIN Lineage(last.from) : Lineage(last.from)[n].op = "Set")
    => LET L == Lineage(last.from)
       IN /\ Len(last.calls) = DistinctKeys(L)
          /\ \A p, q \in DOMAIN last.calls :
                p # q => ~GoEqual(last.calls[p].key, last.calls[q].key)
          /\ \A p \in DOMAIN last.calls :
                /\ \E n \in DOMAIN L : L[n].key = last.calls[p].key
                /\ GoEqual(last.calls[p].key, last.calls[p].key) =>
                      last.calls[p].value = LastWritten(L, last.calls[p].key)

\* C7: once the visitor answers false, Range calls it no more: a visitor
\* that answers false at its call number stop is called min(stop, n) times,
\* n being the calls an always-true visitor gets, and they are the first
\* calls of that walk; stop = 1 on a non-empty map gives exactly one call
C7_ShortCircuit ==
    (last.op = "Range" /\ last.stop # 0)
    => LET all == MapRange(Heap, versions[last.from], 0)
       IN /\ Len(last.calls) <= last.stop
          /\ Len(all) >= last.stop => Len(last.calls) = last.stop
          /\ Len(all) < last.stop => Len(last.calls) = Len(all)
          /\ last.calls = SubSeq(all, 1, Len(last.calls))

\* a visitor that answered false at its second call, on a map of three
\* entries in two leaves
C7_Witness ==
    /\ last.op = "Range"
    /\ last.stop = 2
    /\ Len(last.calls) = 2
    /\ Len(MapRange(Heap, versions[last.from], 0)) = 3
    /\ \E k \in Keys :
          MapGet(Heap, versions[last.from], k).ok /\ HashOf[k] # HashOf["str_empty"]

PointerTypes == {"chan int", "*int"}
CompositeTypes ==
    {"[2]float32", "[129]float32", "struct{s string}", "struct{a []byte; b float32}"}

\* C8: Set with a key whose type is not comparable (a slice, a map, a func,
\* a struct with such a field) panics and returns no map
C8_RejectsIncomparable ==
    /\ \A j \in SetVersions : Comparable(TypeOf(origin[j].key))
    /\ (last.op = "Set" /\ ~Comparable(TypeOf(last.key))) => last.panic

\* Set panicked on a struct with a slice field, on a map that holds an entry
C8_Witness ==
    /\ last.op = "Set"
    /\ last.panic
    /\ last.key = "struct_slice"
    /\ Len(versions) > 1
    /\ \E k \in Keys : MapGet(Heap, versions[Len(versions)], k).ok

\* C9 (as stated): Set, Get and Delete with a channel or a pointer as key
\* fail with the key-type error: no such call returns
C9_AsStated ==
    /\ \A j \in SetVersions \cup DeleteVersions :
          TypeOf(origin[j].key) \notin PointerTypes
    /\ \A j \in SetVersions : \A k \in Keys :
          TypeOf(k) \in PointerTypes => MapGet(Heap, versions[j], k).panic

\* C10 (as stated): Set with an array key or a struct key of comparable
\* fields succeeds, and a following Get with an equal key returns (v, true)
C10_AsStated ==
    /\ (last.op = "Set" /\ last.panic) => ~Comparable(TypeOf(last.key))
    /\ \A j \in SetVersions : \A k2 \in Keys :
          (/\ TypeOf(origin[j].key) \in CompositeTypes
           /\ GoEqual(k2, origin[j].key))
          => MapGet(Heap, versions[j], k2) = Found(origin[j].value)

\* C11 (as stated): Set, Get and Delete with a key of a comparable type
\* return normally, whatever the size in bytes of the key
C11_AsStated ==
    (last.op \in {"Set", "Get", "Delete"} /\ Comparable(TypeOf(last.key)))
    => ~last.panic

(* ------------------------------ Vector claims ---------------------------- *)

\* the Vectors made by each call
VMade(op) == {j \in DOMAIN vecs : vorigin[j].op = op}

\* the Vector a call was made on, and what Get returns now
VFrom(j) == vecs[vorigin[j].from]
VGot(j, index) == VectorGet(vnodes, vecs[j], index)
VValueAt(value) == [value |-> value, panic |-> FALSE]

\* C12: after every Set, Append, Resize and Slice, every Vector made so far
\* has the Size and, for every j < Size, the Get(j) it had when it was made
C12_VectorPersistence ==
    \A i \in DOMAIN vecs : VObserve(vnodes, vecs[i]) = vsnaps[i]

\* a Set wrote another value over a slot that the Vector it was called on
\* holds a value in
C12_Witness ==
    \E j \in VMade("Set") :
        LET index == vorigin[j].a
            p     == vorigin[j].from
        IN /\ VGot(p, index).value # VNil
           /\ VGot(p, index).value # vorigin[j].b
           /\ VGot(j, index).value = vorigin[j].b

\* C13: w = v.Set(i, x) has the Size of v, w.Get(i) = x, and w.Get(j) =
\* v.Get(j) for every other j < Size
C13_SetOneSlot ==
    \A w \in VMade("Set") :
        LET v == vorigin[w].from
            i == vorigin[w].a
        IN /\ VectorSize(vecs[w]) = VectorSize(vecs[v])
           /\ VGot(w, i) = VValueAt(vorigin[w].b)
           /\ \A j \in 0..(VectorSize(vecs[v]) - 1) :
                 j # i => VGot(w, j) = VGot(v, j)

\* a Set on a Vector of depth 2 that holds a value in another slot under
\* the same child of the root
C13_Witness ==
    \E w \in VMade("Set") :
        LET v == vorigin[w].from
        IN /\ vecs[v].depth = 2
           /\ \E j \in 0..(VectorSize(vecs[v]) - 1) :
                 /\ j # vorigin[w].a
                 /\ j \div bucketSize = vorigin[w].a \div bucketSize
                 /\ VGot(v, j).value # VNil
                 /\ VGot(w, j) = VGot(v, j)

\* C14: Vector{}.Resize(N).Get(i) returns nil for every i < N, for N > 0
C14_Sparse ==
    \A w \in VMade("Resize") :
        (VFrom(w) = ZeroVector /\ vorigin[w].a > 0)
        => \A i \in 0..(vorigin[w].a - 1) : VGot(w, i) = VValueAt(VNil)

\* the zero Vector was resized to more than one node holds
C14_Witness ==
    \E w \in VMade("Resize") :
        /\ VFrom(w) = ZeroVector
        /\ vorigin[w].a > bucketSize
        /\ VGot(w, bucketSize) = VValueAt(VNil)

\* the Vectors the fill loop has completed: made from the zero Vector by
\* Resize(n) and then Set(i, i) for every i < n, in order
RECURSIVE FilledUpTo(_, _)
FilledUpTo(p, k) ==
    IF k = 0
    THEN vorigin[p].op = "Resize" /\ VFrom(p) = ZeroVector
    ELSE /\ vorigin[p].op = "Set"
         /\ vorigin[p].a = k - 1
         /\ vorigin[p].b = k - 1
         /\ FilledUpTo(vorigin[p].from, k - 1)

FilledVectors ==
    {p \in DOMAIN vecs : p > 1 /\ FilledUpTo(p, VectorSize(vecs[p]))}

\* C15: for v filled with v[i] = i and a < b <= n, v.Slice(a, b).Get(j) =
\* a + j for every j < b - a
C15_SliceSelects ==
    \A s \in VMade("Slice") :
        LET a == vorigin[s].a
            b == vorigin[s].b
        IN (/\ vorigin[s].from \in FilledVectors
            /\ a < b
            /\ b <= VectorSize(VFrom(s)))
           => \A j \in 0..(b - a - 1) : VGot(s, j) = VValueAt(a + j)

\* a slice that starts inside one child of the root and ends inside the next
C15_Witness ==
    \E s \in VMade("Slice") :
        /\ vorigin[s].from \in FilledVectors
        /\ 0 < vorigin[s].a
        /\ vorigin[s].a < bucketSize
        /\ vorigin[s].b > bucketSize
        /\ VGot(s, vorigin[s].b - vorigin[s].a - 1) = VValueAt(vorigin[s].b - 1)

\* C16: for start <= end, v.Slice(start, end) has Size min(end, v.Size()) -
\* start when start < v.Size() and start < end, and Size 0 when end = start
\* or start >= v.Size(); no such call panics
C16_SliceSize ==
    /\ \A s \in VMade("Slice") :
          LET start == vorigin[s].a
              end   == vorigin[s].b
              size  == VectorSize(VFrom(s))
          IN IF start < size /\ start < end
             THEN VectorSize(vecs[s]) = Min({end, size}) - start
             ELSE VectorSize(vecs[s]) = 0
    /\ (vlast.op = "Slice" /\ vlast.panic) => vlast.b < vlast.a

\* a range that starts inside a Vector and ends past its size was cut to
\* the size
C16_Witness ==
    \E s \in VMade("Slice") :
        /\ vorigin[s].a > 0
        /\ vorigin[s].a < VectorSize(VFrom(s))
        /\ vorigin[s].b > VectorSize(VFrom(s))
        /\ VectorSize(vecs[s]) = VectorSize(VFrom(s)) - vorigin[s].a

\* C17: Get(i) and Set(i, x) with i >= Size() panic, also on the zero
\* Vector, and Slice(start, end) with end < start panics: no such call
\* returns
C17_BoundsPanic ==
    /\ \A w \in VMade("Set") : vorigin[w].a < VectorSize(VFrom(w))
    /\ \A s \in VMade("Slice") : vorigin[s].a <= vorigin[s].b
    /\ \A i \in DOMAIN vecs : \A index \in VIndexes :
          index >= VectorSize(vecs[i]) => VectorGet(vnodes, vecs[i], index).panic
    /\ \A index \in VIndexes : \A value \in VValues :
          /\ VectorGet(vnodes, ZeroVector, index).panic
          /\ VectorSet(vnodes, ZeroVector, index, value).panic

\* a Set at index = Size() panicked, on a Vector that holds a value
C17_Witness ==
    /\ vlast.op = "Set"
    /\ vlast.panic
    /\ vlast.a = VectorSize(vecs[vlast.from])
    /\ vlast.a > 0
    /\ VGot(vlast.from, 0).value # VNil

\* C18 (as stated): for n > v.Size(), v.Resize(n).Get(i) = v.Get(i) for
\* every i < v.Size(), also when n exceeds the capacity
C18_AsStated ==
    \A w \in VMade("Resize") :
        vorigin[w].a > VectorSize(VFrom(w))
        => \A i \in 0..(VectorSize(VFrom(w)) - 1) :
              VGot(w, i) = VGot(vorigin[w].from, i)

\* v.Resize(n) and v.Resize(n).Resize(v.Size()) read as v does, below n and
\* below v.Size()
ShrinkKeeps(v, n) ==
    LET x == VectorResize(vnodes, v, n)
        y == VectorResize(x.h, x.v, VectorSize(v))
    IN /\ \A i \in 0..(n - 1) :
             VectorGet(x.h, x.v, i) = VectorGet(vnodes, v, i)
       /\ \A i \in 0..(VectorSize(v) - 1) :
             VectorGet(y.h, y.v, i) = VectorGet(vnodes, v, i)
       /\ x.v.capacity = y.v.capacity
       /\ x.v.depth = y.v.depth
       /\ (v.capacity # 0 => x.v.capacity = v.capacity /\ x.v.depth = v.depth)

C20_AsStated ==
    \A w \in VMade("Append") :
        LET size == VectorSize(VFrom(w))
        IN /\ VectorSize(vecs[w]) = size + 1
           /\ VGot(w, size) = VValueAt(vorigin[w].a)
           /\ \A i \in 0..(size - 1) : VGot(w, i) = VGot(vorigin[w].from, i)

(* ------------------------- claims on the threads ------------------------- *)

\* every object of heap `now` that heap `before` holds is as it was
KeptFrom(before, now) == \A a \in DOMAIN before : now[a] = before[a]

\* C21: under every interleaving of the writer's steps with the reader's,
\* no step of a call of the writer writes to a node, values array or list
\* that existed when the call began (every object reachable from a Map or
\* Vector returned earlier is one), and every call of the reader returns
\* what it returns when nothing else runs
C21_LockFree ==
    /\ KeptFrom(wbase.nodes, nodes)
    /\ KeptFrom(wbase.varrs, varrs)
    /\ KeptFrom(wbase.earrs, earrs)
    /\ KeptFrom(wbase.vnodes, vnodes)
    /\ rd.pc = "done" => rd.got = rd.alone

\* a Get found the value of a key in a Map while the writer, in a Set of
\* that key on that Map, took steps and has copied the path and the list
C21_Witness ==
    /\ rd.pc = "done"
    /\ rd.op = "Get"
    /\ rd.raced
    /\ rd.got.ok
    /\ wr.pc = "store"
    /\ wr.op = "Set"
    /\ wr.from = rd.from
    /\ wr.key = rd.key
    /\ wr.value # rd.got.value

\* C22 (as stated), for Resize: the call ends, so no turn of its loop leaves
\* the loop where it was: with size > capacity, capacity * 32 modulo 2^32 is
\* another capacity
C22_AsStated ==
    ~(/\ wr.pc = "grow"
      /\ wr.a > wr.v.capacity
      /\ MulBucketSize(wr.v.capacity) = wr.v.capacity)

\* C23 (as stated): walking v with Elements, Next returns true v.Size()
\* times and then false, and after the (i+1)-th true the range's Get returns
\* v.Get(i); no call of the walk fails
C23_AsStated ==
    /\ rd.pc # "panicked"
    /\ rd.pc = "at" => rd.times <= VectorSize(vecs[rd.from])
    /\ rd.pc = "end" => rd.times = VectorSize(vecs[rd.from])
    /\ (rd.pc = "ranging" /\ rd.op = "Get")
       => rd.got = VectorGet2(vnodes, vecs[rd.from], rd.times - 1)

(* --------------------------- claims on Map.Size -------------------------- *)

\* the keys for which versions[j].Get reports found, one for each class of
\* keys that are == to each other
FoundKeys(j) ==
    {<<TypeOf(k), ValueOf(k)>> :
        k \in {x \in Keys : HashOf[x] # Panic /\ MapGet2(Heap, versions[j], x).ok}}

\* C24: Size() is the number of distinct keys that Get finds; Set of a new
\* key adds 1 and Set of an existing key adds 0, Delete of a present key
\* subtracts 1 and Delete of an absent key (also on the zero Map) changes
\* nothing.
C24_AsStated ==
    \A j \in DOMAIN versions :
        /\ MapSize2(versions[j]) = Cardinality(FoundKeys(j))
        /\ origin[j].op \in {"Set", "Delete"} =>
              LET from    == origin[j].from
                  present == snaps[from].gets[origin[j].key].ok
                  step    == IF origin[j].op = "Set"
                             THEN (IF present THEN 0 ELSE 1)
                             ELSE (IF present THEN -1 ELSE 0)
              IN MapSize2(versions[j]) = snaps[from].size + step

(* ------------------------- claims on Vector slices ----------------------- *)

\* C25: every Vector made by Resize, Set, Append and Slice from the zero
\* Vector has size <= capacity - offset, so that every position
\* index + offset with index < size lies inside the capacity.
C25_AsStated ==
    \A j \in DOMAIN vecs :
        /\ vecs[j].size <= vecs[j].capacity - vecs[j].offset
        /\ \A index \in 0..(vecs[j].size - 1) : index + vecs[j].offset < vecs[j].capacity

(* -------------------------- claims on the leaf lists --------------------- *)

RECURSIVE Below(_, _)
\* the buckets n levels below the buckets B
Below(B, n) ==
    IF n = 0 THEN B
    ELSE Below({nodes[b].buckets[i] : b \in B, i \in 0..(bucketCount - 1)} \ {0}, n - 1)

\* the leaf buckets of a Map
Leaves(m) ==
    Below({m.root.buckets[i] : i \in 0..(bucketCount - 1)} \ {0}, levels - 1)

\* the leaf lists of a Map
Lists(m) ==
    {varrs[nodes[b].values.arr][i] :
        <<b, i>> \in {x \in Leaves(m) \X (0..(leaveCount - 1)) : x[2] < nodes[x[1]].values.len}}

\* the leaf list that holds key in a Map, the nil slice when there is none
ListOf(m, key) ==
    LET w == GetWalk(nodes, m.root, HashOf[key], 0)
    IN IF ~w.found \/ w.b.values.len = 0 THEN NilSlice
       ELSE varrs[w.b.values.arr][Digit(w.hash)]

UniqueKeys(list) ==
    \A i, j \in 1..list.len :
        i # j => ~GoEqual(earrs[list.arr][i].key, earrs[list.arr][j].key)

\* the places of a list whose key is == to key
PlacesOf(list, key) == {i \in 1..list.len : GoEqual(earrs[list.arr][i].key, key)}

\* the backing arrays of the lists of the versions made before version j
ArraysBefore(j) == {list.arr : list \in UNION {Lists(versions[i]) : i \in 1..(j - 1)}}

\* C26: no leaf list of a reachable Map holds two entries with equal keys; a
\* Set on a key that is present replaces the entry's value in a fresh copy
\* of the list, whose length stays, and only a Set on an absent key appends.
C26_UniqueKeys ==
    /\ \A j \in DOMAIN versions : \A list \in Lists(versions[j]) : UniqueKeys(list)
    /\ \A j \in SetVersions :
          LET key    == origin[j].key
              before == ListOf(versions[origin[j].from], key)
              after  == ListOf(versions[j], key)
          IN IF snaps[origin[j].from][key].ok
             THEN /\ after.len = before.len
                  /\ after.arr \notin ArraysBefore(j)
                  /\ PlacesOf(after, key) # {}
                  /\ PlacesOf(after, key) = PlacesOf(before, key)
                  /\ \A n \in 1..after.len :
                        earrs[after.arr][n] =
                           IF n \in PlacesOf(after, key)
                           THEN [key |-> earrs[before.arr][n].key, value |-> origin[j].value]
                           ELSE earrs[before.arr][n]
             ELSE /\ after.len = before.len + 1
                  /\ earrs[after.arr][after.len] = [key |-> key, value |-> origin[j].value]
                  /\ \A n \in 1..before.len : earrs[after.arr][n] = earrs[before.arr][n]

\* a Set on the first key of a list of two has replaced its value
C26_Witness ==
    \E j \in SetVersions :
        LET after == ListOf(versions[j], origin[j].key)
        IN /\ snaps[origin[j].from][origin[j].key].ok
           /\ after.len = 2
           /\ PlacesOf(after, origin[j].key) = {1}
           /\ snaps[origin[j].from][origin[j].key].value # origin[j].value

(* ---------------------------- claims on sharing -------------------------- *)

\* the buckets of a Map, the leaves among them
NodesOf(m) ==
    UNION {Below({m.root.buckets[i] : i \in 0..(bucketCount - 1)} \ {0}, n) :
              n \in 0..(levels - 1)}

\* the buckets of the versions made before version j
NodesBefore(j) == UNION {NodesOf(versions[i]) : i \in 1..(j - 1)}

\* the lists of a leaf: nil lists where the leaf has no values yet
LeafLists(b) ==
    [s \in 0..(leaveCount - 1) |->
        IF s < b.values.len THEN varrs[b.values.arr][s] ELSE NilSlice]

RECURSIVE SharedOffPath(_, _, _, _, _)
\* old and new are the buckets of m and of m' at this level of the path of
\* hash: off the path new holds the references of old, on the path a bucket
\* that no earlier version holds
SharedOffPath(old, new, hash, level, j) ==
    IF level = levels
    THEN \A s \in (0..(leaveCount - 1)) \ {Digit(hash)} :
            LeafLists(new)[s] = LeafLists(old)[s]
    ELSE LET d == Digit(hash)
         IN /\ \A i \in (0..(bucketCount - 1)) \ {d} : new.buckets[i] = old.buckets[i]
            /\ new.values = old.values
            /\ new.buckets[d] # 0
            /\ new.buckets[d] \notin NodesBefore(j)
            /\ SharedOffPath(IF old.buckets[d] = 0 THEN EmptyBucket
                             ELSE nodes[old.buckets[d]],
                             nodes[new.buckets[d]], Shift(hash), level + 1, j)

\* the versions made by a Set, or by a Delete that removed an entry
Written ==
    SetVersions \cup {j \in DeleteVersions : snaps[origin[j].from][origin[j].key].ok}

\* C27: for m' = m.Set(k, v), and for a Delete that removes an entry, at
\* each of the 4 levels only the child on the path of k is a new bucket;
\* every other child pointer of each copied bucket and every leaf list but
\* the one of k is the reference m holds.
C27_Sharing ==
    \A j \in Written :
        SharedOffPath(versions[origin[j].from].root, versions[j].root,
                      HashOf[origin[j].key], 0, j)

\* a Set on a Map that holds a key in another list of the same leaf and a
\* key whose path leaves the one of the Set below the root
C27_Witness ==
    \E j \in SetVersions :
        /\ origin[j].key = "str_empty"
        /\ snaps[origin[j].from]["str_84_04"].ok
        /\ snaps[origin[j].from]["f64_neg0"].ok

(* -------------------------- claims on the encoding ----------------------- *)

\* C28: two keys that are == (the equality of the scan of a leaf list) have
\* the same bytes and the same digest, so m.Set(k1, v).Get(k2) = (v, true).
C28_AsStated ==
    \A j \in SetVersions : \A k2 \in Keys :
        GoEqual(origin[j].key, k2) =>
           /\ BytesOf(k2) = BytesOf(origin[j].key)
           /\ hashValue(k2) = hashValue(origin[j].key)
           /\ MapGet(Heap, versions[j], k2) = Found(origin[j].value)

(* ------------------------ claims on slices of slices --------------------- *)

\* C29: for a <= b <= v.Size() and c <= d <= b - a,
\* v.Slice(a, b).Slice(c, d) has Size d - c, and its Get(j) is
\* v.Get(a + c + j) for every j < d - c.
C29_AsStated ==
    \A t \in VMade("Slice") :
        LET s == vorigin[t].from
            v == vorigin[s].from
            a == vorigin[s].a
            b == vorigin[s].b
            c == vorigin[t].a
            d == vorigin[t].b
        IN (/\ vorigin[s].op = "Slice"
            /\ a <= b /\ b <= VectorSize(vecs[v])
            /\ c <= d /\ d <= b - a)
           => /\ VectorSize(vecs[t]) = d - c
              /\ \A j \in 0..(d - c - 1) : VGot(t, j) = VGot(v, a + c + j)

(* ----------------------- claims on the frame of Delete ------------------- *)

\* C30: for every reachable Map m and keys k != k2,
\* m.Delete(k).Get(k2) = m.Get(k2), also when k and k2 share a leaf list
\* and when k is present in m.
C30_AsStated ==
    \A j \in DeleteVersions : \A k2 \in Keys :
        (HashOf[k2] # Panic /\ ~GoEqual(origin[j].key, k2))
        => MapGet2(Heap, versions[j], k2) = MapGet2(Heap, versions[origin[j].from], k2)

====
